---- MODULE Spec2Model ----
(***************************************************************************)
(* LoreFit: the Supabase schema (profiles, user_points and their triggers, *)
(* row-level security policies and the award_points / spend_points         *)
(* functions) and the client-side authentication wrappers.                 *)
(*                                                                         *)
(* Database sessions run at PostgreSQL's default isolation level, READ     *)
(* COMMITTED: every statement of a function sees the rows committed when   *)
(* the statement starts, and a function that writes with a single UPDATE   *)
(* commits with it.  So a call is one step per statement that touches a    *)
(* table.  Timestamps (NOW()) and the free-text source / purpose /         *)
(* description arguments are not modelled.                                 *)
(***************************************************************************)
EXTENDS Integers, Sequences, FiniteSets, TLC

\* ------------------------------------------------------------------ bounds

\* Entries the points histories hold together, those of calls under way included.
MaxEntries == 3
\* Auth state changes waiting for the hook's listener.
MaxEvents == 2
\* Days that pass.
MaxNow == 2

\* ------------------------------------------------------------------ values

\* UUIDs, as character sequences; the first two agree on their first 8 characters.
IdA1 == <<"a", "0", "0", "0", "0", "0", "0", "0", "1">>
IdA2 == <<"a", "0", "0", "0", "0", "0", "0", "0", "2">>
IdB1 == <<"b", "0", "0", "0", "0", "0", "0", "0", "1">>
UserIds == {IdA1, IdA2, IdB1}

\* auth.uid() of a request that carries no session.
Anon == <<>>

Alice == <<"a", "l", "i", "c", "e">>
Bob == <<"b", "o", "b">>
Usernames == {Alice, Bob}
Emails == {"a@x.io", "b@x.io"}

\* SQL NULL / a present value, for nullable columns, variables and JSON keys.
NULL == {}
Some(v) == {v}
IsNull(o) == o = {}
Val(o) == CHOOSE v \in o : TRUE
COALESCE(o, dflt) == IF IsNull(o) THEN dflt ELSE Val(o)
\* a < b in SQL's three-valued logic, as an IF condition reads it (NULL is not true)
SqlLt(o, n) == ~IsNull(o) /\ Val(o) < n

\* p_amount of a call, and the balance a direct statement tries to write
Amounts == {-1, 0, 1, 2}
Balances == {2}
Sessions == {"s1", "s2"}
Clients == {"c1", "c2"}

\* INTEGER columns are 32 bits wide; arithmetic out of range raises.
INT4_MAX == 2147483647
InInt4(n) == n >= -INT4_MAX - 1 /\ n <= INT4_MAX

VARIABLES
    auth_users,     \* auth.users: id -> [email]
    profiles,       \* public.profiles: id -> [username, display_name]
    user_points,    \* public.user_points: user_id -> row
    pc,             \* per database session: where its function call stands
    call,           \* per database session: the arguments of the call under way,
                    \* and whether its SELECT found a row
    ret,            \* what the last statement or call returned, and to which session
    acct,           \* per user_points row: what the calls on it returned
    wpc,            \* per browser client: where its auth wrapper stands
    wargs,          \* per browser client: the data the wrapper was called with
    wres,           \* per browser client: what the wrapper returned last
    issued,         \* per browser client: backend calls this invocation issued
    replies,        \* per browser client: what the backend answered them
    held,           \* per browser client: did a profile hold the username signUp
                    \* was called with, at the call and at its check
    page,           \* the auth page that is mounted: "signup" or "login"
    formData,       \* the page's form fields
    errors,         \* the page's error messages, by field
    loading,        \* the page's loading flag
    submitted,      \* the data of the backend call handleSubmit awaits, if any
    pushed,         \* the routes given to router.push so far
    hook,           \* the auth hook of the mounted component, or "none"
    session,        \* the signed-in user of the browser's auth client, if any
    hookUser,       \* useUser's state: user
    userLoading,    \* useUser's state: loading
    getUser,        \* the hook's supabase.auth.getUser() call
    events,         \* auth state changes not yet given to the hook's listener
    signOut,        \* useAuth's signOut: where it stands
    user_challenges,\* public.user_challenges: id -> row
    workouts,       \* public.workouts: id -> row
    activity_sync,  \* public.activity_sync: id -> row
    user_baselines, \* public.user_baselines: row id -> row
    now,            \* NOW(), in days
    profile,        \* useProfile's state: profile (the id of the row it holds)
    profileLoading, \* useProfile's state: loading
    profileError,   \* useProfile's state: error
    fetches,        \* users whose profile fetches are under way
    paid            \* per challenge: award_points calls made for it, and calls of
                    \* check_challenge_completion on it that returned TRUE

dbvars == <<auth_users, profiles, user_points, pc, call, ret, acct>>
cvars == <<wpc, wargs, wres, issued, replies, held>>
pvars == <<profile, profileLoading, profileError, fetches>>
uivars == <<page, formData, errors, loading, submitted, pushed,
            hook, session, hookUser, userLoading, getUser, events, signOut, pvars>>
hookvars == <<hook, session, hookUser, userLoading, getUser, events, signOut, pvars>>
formvars == <<page, formData, errors, loading, submitted>>
chvars == <<user_challenges, workouts, activity_sync, user_baselines, now, paid>>
owned == <<user_challenges, workouts, activity_sync, user_baselines>>
vars == <<auth_users, profiles, user_points, pc, call, ret, acct,
          wpc, wargs, wres, issued, replies, held,
          page, formData, errors, loading, submitted, pushed,
          hook, session, hookUser, userLoading, getUser, events, signOut,
          user_challenges, workouts, activity_sync, user_baselines, now, paid,
          profile, profileLoading, profileError, fetches>>

\* ------------------------------------------------------------- table helpers

HasRow(t, k) == k \in DOMAIN t
Put(t, k, row) == [x \in DOMAIN t \cup {k} |-> IF x = k THEN row ELSE t[x]]
Del(t, k) == [x \in DOMAIN t \ {k} |-> t[x]]
EmptyTable == <<>>

\* ------------------------------------------------------------- user_points

\* Column defaults of CREATE TABLE user_points.
DefaultPointsRow ==
    [current_balance |-> 0, total_earned |-> 0, total_spent |-> 0, level |-> 1,
     points_history |-> <<>>, weekly_goal |-> 100]

\* Faulty variant: the table without its CHECK constraints
PointsRowValid_no_checks(r) ==
    InInt4(r.current_balance) /\ InInt4(r.total_earned) /\ InInt4(r.total_spent)

\* The column CHECK constraints and the INTEGER range of a row.
PointsRowValid(r) ==
    /\ r.current_balance >= 0
    /\ r.total_earned >= 0
    /\ r.total_spent >= 0
    /\ r.level >= 1
    /\ r.weekly_goal > 0
    /\ InInt4(r.current_balance) /\ InInt4(r.total_earned) /\ InInt4(r.total_spent)

\* Faulty variant: row-level security that lets a command without a policy through
PointsPolicyUsing_default_permit(cmd, uid, row) ==
    CASE cmd = "SELECT" -> TRUE
      [] cmd = "UPDATE" -> FALSE
      [] OTHER -> TRUE

\* Row-level security of user_points.  A command with no policy is denied.
PointsPolicyUsing(cmd, uid, row) ==
    CASE cmd = "SELECT" -> TRUE
      [] cmd = "UPDATE" -> FALSE
      [] OTHER -> FALSE

PointsPolicyCheck(cmd, uid, row) ==
    CASE cmd = "INSERT" -> FALSE
      [] cmd = "UPDATE" -> FALSE
      [] OTHER -> FALSE

\* The statement a client sends straight to user_points, under RLS: the rows it
\* may touch and whether the new row passes WITH CHECK.
PointsInsertAllowed(uid, row) == PointsPolicyCheck("INSERT", uid, row)
PointsUpdatable(uid, row) ==
    PointsPolicyUsing("SELECT", uid, row) /\ PointsPolicyUsing("UPDATE", uid, row)
PointsUpdateAllowed(uid, row) == PointsPolicyCheck("UPDATE", uid, row)
PointsDeletable(uid, row) ==
    PointsPolicyUsing("SELECT", uid, row) /\ PointsPolicyUsing("DELETE", uid, row)

\* handle_new_profile_points: AFTER INSERT ON profiles, SECURITY DEFINER.
\* A primary-key conflict raises and aborts the inserting statement.
handle_new_profile_points(pts, newId) ==
    IF HasRow(pts, newId)
    THEN [ok |-> FALSE, user_points |-> pts]
    ELSE [ok |-> TRUE, user_points |-> Put(pts, newId, DefaultPointsRow)]

\* ------------------------------------------------------------------ profiles

\* Row-level security of profiles; auth.uid() = id is not true for NULL.
ProfilesPolicyUsing(cmd, uid, id) ==
    CASE cmd = "SELECT" -> TRUE
      [] cmd = "UPDATE" -> uid # Anon /\ uid = id
      [] cmd = "DELETE" -> uid # Anon /\ uid = id
      [] OTHER -> FALSE

ProfilesPolicyCheck(cmd, uid, id) ==
    CASE cmd = "INSERT" -> uid # Anon /\ uid = id
      [] cmd = "UPDATE" -> uid # Anon /\ uid = id
      [] OTHER -> FALSE

\* Faulty variant: username without its UNIQUE constraint
UsernameTaken_not_unique(profs, name, selfId) == FALSE

\* username TEXT UNIQUE: some other row already holds the name.
UsernameTaken(profs, name, selfId) ==
    \E k \in DOMAIN profs : k # selfId /\ profs[k].username = name

\* INSERT INTO profiles with its constraints (primary key, foreign key to
\* auth.users, UNIQUE username) and its AFTER INSERT trigger, as one statement.
ProfileInsert(au, profs, pts, id, row) ==
    IF HasRow(profs, id) \/ ~HasRow(au, id) \/ UsernameTaken(profs, row.username, id)
    THEN [ok |-> FALSE, profiles |-> profs, user_points |-> pts]
    ELSE LET t == handle_new_profile_points(pts, id)
         IN  IF t.ok
             THEN [ok |-> TRUE, profiles |-> Put(profs, id, row),
                   user_points |-> t.user_points]
             ELSE [ok |-> FALSE, profiles |-> profs, user_points |-> pts]

\* Faulty variant: a fallback username made of the whole id
FallbackUsername_whole_id(id) == <<"u", "s", "e", "r", "_">> \o id

\* 'user_' || SUBSTRING(NEW.id::text, 1, 8)
FallbackUsername(id) == <<"u", "s", "e", "r", "_">> \o SubSeq(id, 1, 8)

\* handle_new_user: AFTER INSERT ON auth.users, SECURITY DEFINER.
\* au already holds the new auth.users row.
handle_new_user(au, profs, pts, id, email, meta) ==
    ProfileInsert(au, profs, pts, id,
        [username |-> COALESCE(meta.username, FallbackUsername(id)),
         display_name |-> COALESCE(meta.display_name, email)])

\* auth.users holds one row per email.
EmailTaken(au, email) == \E k \in DOMAIN au : au[k].email = email

\* INSERT INTO auth.users by the auth service, with its trigger chain.  A trigger
\* that raises aborts the whole insert.
AuthUserInsert(au, profs, pts, id, email, meta) ==
    IF HasRow(au, id) \/ EmailTaken(au, email)
    THEN [ok |-> FALSE, err |-> "User already registered",
          auth_users |-> au, profiles |-> profs, user_points |-> pts]
    ELSE LET au2 == Put(au, id, [email |-> email])
             t == handle_new_user(au2, profs, pts, id, email, meta)
         IN  IF t.ok
             THEN [ok |-> TRUE, err |-> "",
                   auth_users |-> au2, profiles |-> t.profiles,
                   user_points |-> t.user_points]
             ELSE [ok |-> FALSE, err |-> "Database error saving new user",
                   auth_users |-> au, profiles |-> profs, user_points |-> pts]

\* DELETE FROM profiles WHERE id = ...: ON DELETE CASCADE removes the points row.
ProfileDelete(profs, pts, id) ==
    [profiles |-> Del(profs, id), user_points |-> Del(pts, id)]

\* ------------- workouts, activity_sync, user_baselines, user_challenges: tables

\* The tables whose rows belong to one user (user_id REFERENCES profiles).
OwnedTables == {"workouts", "activity_sync", "user_baselines", "user_challenges"}

\* CREATE POLICY ... USING (auth.uid() = user_id), FOR SELECT, UPDATE and DELETE.
\* user_baselines has no DELETE policy: with row level security enabled and no
\* policy for a command, no row qualifies.
OwnedPolicyUsing(name, cmd, uid, row) ==
    CASE cmd = "SELECT" -> uid # Anon /\ uid = row.user_id
      [] cmd = "UPDATE" -> uid # Anon /\ uid = row.user_id
      [] cmd = "DELETE" -> name # "user_baselines" /\ uid # Anon /\ uid = row.user_id
      [] OTHER -> FALSE

\* Faulty variant: an UPDATE policy without WITH CHECK on the new row
OwnedPolicyCheck_insert_only(name, cmd, uid, row) ==
    CASE cmd = "INSERT" -> uid # Anon /\ uid = row.user_id
      [] cmd = "UPDATE" -> TRUE
      [] OTHER -> FALSE

\* CREATE POLICY ... WITH CHECK (auth.uid() = user_id), FOR INSERT and UPDATE.
OwnedPolicyCheck(name, cmd, uid, row) ==
    CASE cmd \in {"INSERT", "UPDATE"} -> uid # Anon /\ uid = row.user_id
      [] OTHER -> FALSE

\* CHECK constraints of CREATE TABLE user_challenges.
ChallengeRowValid(row) ==
    /\ row.target_value > 0
    /\ row.current_value >= 0
    /\ row.status \in {"active", "completed", "failed", "expired"}
    /\ row.points_reward >= 0

\* The constraints a new or changed row of an owned table must meet: the foreign
\* key to profiles, unique_user_source (one source in the model), the primary key
\* user_id of user_baselines, the CHECKs of user_challenges.
RowValid(name, t, id, row, profs) ==
    /\ HasRow(profs, row.user_id)
    /\ name \in {"activity_sync", "user_baselines"}
         => \A k \in DOMAIN t \ {id} : t[k].user_id # row.user_id
    /\ name = "user_challenges" => ChallengeRowValid(row)

Stmt(status, t) == [status |-> status, table |-> t]

\* INSERT INTO <owned table> by auth.uid() = uid
OwnedInsert(name, t, uid, id, row, profs) ==
    IF ~OwnedPolicyCheck(name, "INSERT", uid, row)
    THEN Stmt("row-level security violation", t)
    ELSE IF HasRow(t, id) \/ ~RowValid(name, t, id, row, profs)
    THEN Stmt("constraint violation", t)
    ELSE Stmt("INSERT 0 1", Put(t, id, row))

\* UPDATE <owned table> SET ... WHERE id = ... by auth.uid() = uid
OwnedUpdate(name, t, uid, id, row, profs) ==
    IF ~(HasRow(t, id) /\ OwnedPolicyUsing(name, "SELECT", uid, t[id])
                       /\ OwnedPolicyUsing(name, "UPDATE", uid, t[id]))
    THEN Stmt("UPDATE 0", t)
    ELSE IF ~OwnedPolicyCheck(name, "UPDATE", uid, row)
    THEN Stmt("row-level security violation", t)
    ELSE IF ~RowValid(name, t, id, row, profs)
    THEN Stmt("constraint violation", t)
    ELSE Stmt("UPDATE 1", Put(t, id, row))

\* DELETE FROM <owned table> WHERE id = ... by auth.uid() = uid
OwnedDelete(name, t, uid, id) ==
    IF ~(HasRow(t, id) /\ OwnedPolicyUsing(name, "SELECT", uid, t[id])
                       /\ OwnedPolicyUsing(name, "DELETE", uid, t[id]))
    THEN Stmt("DELETE 0", t)
    ELSE Stmt("DELETE 1", Del(t, id))

\* SELECT id FROM <owned table> by auth.uid() = uid
OwnedSelect(name, t, uid) ==
    {k \in DOMAIN t : OwnedPolicyUsing(name, "SELECT", uid, t[k])}

\* user_id ... REFERENCES public.profiles(id) ON DELETE CASCADE
Cascade(t, gone) == [k \in {x \in DOMAIN t : t[x].user_id \notin gone} |-> t[k]]

\* raw_user_meta_data of a new auth user
Metas ==
    [username : {NULL} \cup {Some(n) : n \in Usernames},
     display_name : {Some("Al")}]

\* ------------------------------------------------- award_points / spend_points

\* What a statement or function call returned to its session.
Ret(fn, status, bal, tot, succ) ==
    [fn |-> fn, status |-> status, new_balance |-> bal, new_total_earned |-> tot,
     success |-> succ]
NoRet == Ret("", "", NULL, NULL, NULL)
NoCall == [user |-> Anon, amount |-> 0, found |-> FALSE]

\* Faulty variant: an UPDATE that forgets total_earned
AwardedRow_balance_only(r, p_amount) ==
    [r EXCEPT !.current_balance = r.current_balance + p_amount,
              !.points_history = Append(r.points_history,
                                        [amount |-> p_amount, type |-> "earned"])]

\* Faulty variant: an UPDATE that assigns the new entry instead of appending it
AwardedRow_overwrites_history(r, p_amount) ==
    [r EXCEPT !.current_balance = r.current_balance + p_amount,
              !.total_earned = r.total_earned + p_amount,
              !.points_history = <<[amount |-> p_amount, type |-> "earned"]>>]

\* The row award_points' UPDATE writes.
AwardedRow(r, p_amount) ==
    [r EXCEPT !.current_balance = r.current_balance + p_amount,
              !.total_earned = r.total_earned + p_amount,
              !.points_history = Append(r.points_history,
                                        [amount |-> p_amount, type |-> "earned"])]

\* Faulty variant: a validation that lets zero through
NotPositive_negative_only(p_amount) == p_amount < 0

\* IF p_amount <= 0 THEN RAISE EXCEPTION 'Points amount must be positive'
NotPositive(p_amount) == p_amount <= 0

\* award_points(p_user_id, p_amount): the validation, then its one UPDATE ...
\* RETURNING.  No row matching p_user_id leaves the variables NULL.
award_points(pts, p_user_id, p_amount) ==
    IF NotPositive(p_amount)
    THEN [user_points |-> pts,
          ret |-> Ret("award_points", "Points amount must be positive", NULL, NULL, NULL)]
    ELSE IF ~HasRow(pts, p_user_id)
    THEN [user_points |-> pts, ret |-> Ret("award_points", "ok", NULL, NULL, NULL)]
    ELSE LET new == AwardedRow(pts[p_user_id], p_amount)
         IN  IF ~InInt4(new.total_earned) \/ ~InInt4(new.current_balance)
             THEN [user_points |-> pts,
                   ret |-> Ret("award_points", "integer out of range", NULL, NULL, NULL)]
             ELSE IF ~PointsRowValid(new)
             THEN [user_points |-> pts,
                   ret |-> Ret("award_points", "check constraint violated",
                               NULL, NULL, NULL)]
             ELSE [user_points |-> Put(pts, p_user_id, new),
                   ret |-> Ret("award_points", "ok", Some(new.current_balance),
                               Some(new.total_earned), NULL)]

\* ------------------------ check_challenge_completion / expire_old_challenges

\* ids of the rows of user_challenges
ChallengeIds == {"r1", "r2"}
NoPaid == [awards |-> 0, trues |-> 0]

\* Faulty variant: a SELECT without its status condition
SelectChallenge_any_status(ch, p_challenge_id) ==
    IF HasRow(ch, p_challenge_id) THEN Some(ch[p_challenge_id]) ELSE NULL

\* SELECT * INTO v_challenge FROM user_challenges
\* WHERE id = p_challenge_id AND status = 'active'; NULL for NOT FOUND
SelectChallenge(ch, p_challenge_id) ==
    IF HasRow(ch, p_challenge_id) /\ ch[p_challenge_id].status = "active"
    THEN Some(ch[p_challenge_id])
    ELSE NULL

\* UPDATE user_challenges SET status = 'completed', completed_at = NOW()
\* WHERE id = p_challenge_id
CompletedRows(ch, p_challenge_id, t) ==
    IF HasRow(ch, p_challenge_id)
    THEN Put(ch, p_challenge_id, [ch[p_challenge_id] EXCEPT !.status = "completed",
                                                            !.completed_at = Some(t)])
    ELSE ch

\* check_challenge_completion from 'Mark as completed' on: the UPDATE, PERFORM
\* award_points for a positive reward, RETURN TRUE.  An exception of
\* award_points ends the call and undoes the UPDATE.
check_challenge_completion(ch, pts, p_challenge_id, v_challenge, t) ==
    LET invoked == v_challenge.points_reward > 0
        a == IF invoked
             THEN award_points(pts, v_challenge.user_id, v_challenge.points_reward)
             ELSE [user_points |-> pts, ret |-> Ret("", "ok", NULL, NULL, NULL)]
    IN  IF a.ret.status # "ok"
        THEN [user_challenges |-> ch, user_points |-> pts, invoked |-> invoked,
              award |-> a.ret,
              ret |-> Ret("check_challenge_completion", a.ret.status, NULL, NULL, NULL)]
        ELSE [user_challenges |-> CompletedRows(ch, p_challenge_id, t),
              user_points |-> a.user_points, invoked |-> invoked, award |-> a.ret,
              ret |-> Ret("check_challenge_completion", "ok", NULL, NULL, Some(TRUE))]

\* Faulty variant: a WHERE clause without the progress condition
Expirable_ignores_progress(row, t) == row.status = "active" /\ row.ends_at < t

\* WHERE status = 'active' AND ends_at < NOW() AND current_value < target_value
Expirable(row, t) ==
    row.status = "active" /\ row.ends_at < t /\ row.current_value < row.target_value

\* expire_old_challenges(): its one UPDATE, and ROW_COUNT
expire_old_challenges(ch, t) ==
    [user_challenges |->
         [k \in DOMAIN ch |-> IF Expirable(ch[k], t)
                              THEN [ch[k] EXCEPT !.status = "expired"]
                              ELSE ch[k]],
     v_expired_count |-> Cardinality({k \in DOMAIN ch : Expirable(ch[k], t)})]

\* SELECT current_balance INTO v_current_balance ... WHERE user_id = p_user_id
SelectBalance(pts, p_user_id) ==
    IF HasRow(pts, p_user_id) THEN Some(pts[p_user_id].current_balance) ELSE NULL

\* IF v_current_balance < p_amount: not taken when v_current_balance is NULL.
InsufficientBalance(v_current_balance, p_amount) == SqlLt(v_current_balance, p_amount)

\* Faulty variant: an UPDATE that stops at zero instead of relying on the CHECK
SpentRow_clamped(r, p_amount) ==
    [r EXCEPT !.current_balance =
                  IF r.current_balance < p_amount THEN 0
                  ELSE r.current_balance - p_amount,
              !.total_spent = r.total_spent + p_amount,
              !.points_history = Append(r.points_history,
                                        [amount |-> -p_amount, type |-> "spent"])]

\* Faulty variant: an UPDATE that forgets total_spent
SpentRow_forgets_total(r, p_amount) ==
    [r EXCEPT !.current_balance = r.current_balance - p_amount,
              !.points_history = Append(r.points_history,
                                        [amount |-> -p_amount, type |-> "spent"])]

\* Faulty variant: a history entry with the amount unsigned
SpentRow_unsigned_entry(r, p_amount) ==
    [r EXCEPT !.current_balance = r.current_balance - p_amount,
              !.total_spent = r.total_spent + p_amount,
              !.points_history = Append(r.points_history,
                                        [amount |-> p_amount, type |-> "spent"])]

\* The row spend_points' UPDATE writes: relative to the row as the UPDATE finds it.
SpentRow(r, p_amount) ==
    [r EXCEPT !.current_balance = r.current_balance - p_amount,
              !.total_spent = r.total_spent + p_amount,
              !.points_history = Append(r.points_history,
                                        [amount |-> -p_amount, type |-> "spent"])]

\* spend_points after its balance check passed: the UPDATE ... RETURNING and the
\* RETURN QUERY SELECT v_new_balance, true.
spend_points_update(pts, p_user_id, p_amount) ==
    IF ~HasRow(pts, p_user_id)
    THEN [user_points |-> pts, ret |-> Ret("spend_points", "ok", NULL, NULL, Some(TRUE))]
    ELSE LET new == SpentRow(pts[p_user_id], p_amount)
         IN  IF ~InInt4(new.total_spent) \/ ~InInt4(new.current_balance)
             THEN [user_points |-> pts,
                   ret |-> Ret("spend_points", "integer out of range", NULL, NULL, NULL)]
             ELSE IF ~PointsRowValid(new)
             THEN [user_points |-> pts,
                   ret |-> Ret("spend_points", "check constraint violated",
                               NULL, NULL, NULL)]
             ELSE [user_points |-> Put(pts, p_user_id, new),
                   ret |-> Ret("spend_points", "ok", Some(new.current_balance), NULL,
                               Some(TRUE))]

\* ------------------------------------------------------------------- ledger

\* What the calls on a row returned since the row was inserted.
NoAcct == [earned |-> 0, spent |-> 0, entries |-> 0]

\* acct after the table went from pts to pts2: a row inserted or deleted starts over.
AcctAfter(a, pts, pts2) ==
    [u \in UserIds |-> IF HasRow(pts2, u) = HasRow(pts, u) THEN a[u] ELSE NoAcct]

\* ------------------------------------------------------- wrapper results

\* What a wrapper resolves to: { user, error }, or { error } with user left NULL.
\* threw says that the promise was rejected instead.
ErrorValue(message, field) == Some([message |-> message, field |-> field])
Result(fn, user, error) == [fn |-> fn, user |-> user, error |-> error, threw |-> FALSE]
Rejected(fn) == [fn |-> fn, user |-> NULL, error |-> NULL, threw |-> TRUE]
NoResult == Result("", NULL, NULL)
NoArgs == [email |-> "", username |-> <<>>]
NoHeld == [at_call |-> FALSE, at_check |-> FALSE]

\* ------------------------------------------------------------ initial state

Init ==
    /\ auth_users = EmptyTable
    /\ profiles = EmptyTable
    /\ user_points = EmptyTable
    /\ pc = [s \in Sessions |-> "idle"]
    /\ call = [s \in Sessions |-> NoCall]
    /\ ret = NoRet
    /\ acct = [u \in UserIds |-> NoAcct]
    /\ wpc = [c \in Clients |-> "idle"]
    /\ wargs = [c \in Clients |-> NoArgs]
    /\ wres = [c \in Clients |-> NoResult]
    /\ issued = [c \in Clients |-> <<>>]
    /\ replies = [c \in Clients |-> <<>>]
    /\ held = [c \in Clients |-> NoHeld]
    /\ page = "none"
    /\ formData = <<>>
    /\ errors = <<>>
    /\ loading = FALSE
    /\ submitted = NULL
    /\ pushed = {}
    /\ hook = "none"
    /\ session = NULL
    /\ hookUser = NULL
    /\ userLoading = TRUE
    /\ getUser = [state |-> "none", user |-> NULL]
    /\ events = <<>>
    /\ signOut = "none"
    /\ profile = NULL
    /\ profileLoading = TRUE
    /\ profileError = NULL
    /\ fetches = {}
    /\ user_challenges = EmptyTable
    /\ workouts = EmptyTable
    /\ activity_sync = EmptyTable
    /\ user_baselines = EmptyTable
    /\ now = 0
    /\ paid = [id \in ChallengeIds |-> NoPaid]

\* auth.uid() of a request: a signed-up user, or none.
Actors == DOMAIN auth_users \cup {Anon}

\* session s ends its call with result r
Returns(s, r) ==
    /\ ret' = r
    /\ pc' = [pc EXCEPT ![s] = "idle"]
    /\ call' = [call EXCEPT ![s] = NoCall]

\* a statement sent outside the function calls ends with result r
Replies(r) == ret' = r /\ UNCHANGED <<pc, call>>

\* ------------------------------------------------------- sign-up in the database

\* The auth service creates a user: INSERT INTO auth.users, on_auth_user_created,
\* on_profile_created_init_points.
CreateAuthUser(id, email, meta) ==
    LET t == AuthUserInsert(auth_users, profiles, user_points, id, email, meta)
    IN  /\ t.ok
        /\ auth_users' = t.auth_users
        /\ profiles' = t.profiles
        /\ user_points' = t.user_points
        /\ acct' = AcctAfter(acct, user_points, t.user_points)
        /\ UNCHANGED <<pc, call, ret>>
        /\ UNCHANGED <<cvars, uivars, chvars>>

\* ------------------------------------------- client statements on profiles

ClientInsertProfile(uid, id, name) ==
    /\ LET row == [username |-> name, display_name |-> "Al"]
           t == ProfileInsert(auth_users, profiles, user_points, id, row)
       IN  IF ~ProfilesPolicyCheck("INSERT", uid, id)
           THEN /\ Replies(Ret("insert profiles", "row-level security violation",
                                  NULL, NULL, NULL))
                /\ UNCHANGED <<profiles, user_points, acct>>
           ELSE IF ~t.ok
           THEN /\ Replies(Ret("insert profiles", "constraint violation",
                                  NULL, NULL, NULL))
                /\ UNCHANGED <<profiles, user_points, acct>>
           ELSE /\ Replies(Ret("insert profiles", "INSERT 0 1", NULL, NULL, NULL))
                /\ profiles' = t.profiles
                /\ user_points' = t.user_points
                /\ acct' = AcctAfter(acct, user_points, t.user_points)
    /\ LET gone == {x \in {id} : x \notin DOMAIN profiles'}
       IN  /\ workouts' = Cascade(workouts, gone)
           /\ activity_sync' = Cascade(activity_sync, gone)
           /\ user_baselines' = Cascade(user_baselines, gone)
           /\ user_challenges' = Cascade(user_challenges, gone)
    /\ UNCHANGED auth_users
    /\ UNCHANGED <<cvars, uivars, now, paid>>

ClientUpdateProfile(uid, id, name) ==
    /\ IF ~(HasRow(profiles, id) /\ ProfilesPolicyUsing("SELECT", uid, id)
                                /\ ProfilesPolicyUsing("UPDATE", uid, id))
       THEN /\ Replies(Ret("update profiles", "UPDATE 0", NULL, NULL, NULL))
            /\ UNCHANGED profiles
       ELSE IF ~ProfilesPolicyCheck("UPDATE", uid, id)
       THEN /\ Replies(Ret("update profiles", "row-level security violation",
                              NULL, NULL, NULL))
            /\ UNCHANGED profiles
       ELSE IF UsernameTaken(profiles, name, id)
       THEN /\ Replies(Ret("update profiles", "constraint violation",
                              NULL, NULL, NULL))
            /\ UNCHANGED profiles
       ELSE /\ Replies(Ret("update profiles", "UPDATE 1", NULL, NULL, NULL))
            /\ profiles' = Put(profiles, id, [profiles[id] EXCEPT !.username = name])
    /\ UNCHANGED <<auth_users, user_points, acct>>
    /\ UNCHANGED <<cvars, uivars, chvars>>

ClientDeleteProfile(uid, id) ==
    /\ IF ~(HasRow(profiles, id) /\ ProfilesPolicyUsing("SELECT", uid, id)
                                /\ ProfilesPolicyUsing("DELETE", uid, id))
       THEN /\ Replies(Ret("delete profiles", "DELETE 0", NULL, NULL, NULL))
            /\ UNCHANGED <<profiles, user_points, acct>>
       ELSE LET t == ProfileDelete(profiles, user_points, id)
            IN  /\ Replies(Ret("delete profiles", "DELETE 1", NULL, NULL, NULL))
                /\ profiles' = t.profiles
                /\ user_points' = t.user_points
                /\ acct' = AcctAfter(acct, user_points, t.user_points)
    /\ UNCHANGED auth_users
    /\ UNCHANGED <<cvars, uivars, chvars>>

\* ------------------------------------ client statements on the owned tables

Table(name) ==
    CASE name = "workouts" -> workouts
      [] name = "activity_sync" -> activity_sync
      [] name = "user_baselines" -> user_baselines
      [] name = "user_challenges" -> user_challenges

\* the statement's table becomes t, the other tables stay
SetTable(name, t) ==
    /\ workouts' = IF name = "workouts" THEN t ELSE workouts
    /\ activity_sync' = IF name = "activity_sync" THEN t ELSE activity_sync
    /\ user_baselines' = IF name = "user_baselines" THEN t ELSE user_baselines
    /\ user_challenges' = IF name = "user_challenges" THEN t ELSE user_challenges

\* What a statement on an owned table returned: its status and, for a SELECT,
\* the rows.
RowsRet(cmd, status, rows) == [fn |-> cmd, status |-> status, rows |-> rows]

OwnedFrame ==
    UNCHANGED <<auth_users, profiles, user_points, pc, call, acct, now, paid, cvars,
                uivars>>

ClientSelectRows(name, uid) ==
    /\ ret' = RowsRet("SELECT", "ok", OwnedSelect(name, Table(name), uid))
    /\ UNCHANGED owned
    /\ OwnedFrame

ClientInsertRow(name, uid, id, row) ==
    LET r == OwnedInsert(name, Table(name), uid, id, row, profiles)
    IN  /\ ret' = RowsRet("INSERT", r.status, {})
        /\ SetTable(name, r.table)
        /\ OwnedFrame

ClientUpdateRow(name, uid, id, row) ==
    LET r == OwnedUpdate(name, Table(name), uid, id, row, profiles)
    IN  /\ ret' = RowsRet("UPDATE", r.status, {})
        /\ SetTable(name, r.table)
        /\ OwnedFrame

ClientDeleteRow(name, uid, id) ==
    LET r == OwnedDelete(name, Table(name), uid, id)
    IN  /\ ret' = RowsRet("DELETE", r.status, {})
        /\ SetTable(name, r.table)
        /\ OwnedFrame

\* ---------------------------------------- client statements on user_points

\* INSERT INTO user_points (user_id, current_balance) VALUES (u, v)
ClientInsertPoints(uid, u, v) ==
    /\ LET row == [DefaultPointsRow EXCEPT !.current_balance = v]
       IN  IF ~PointsInsertAllowed(uid, row)
           THEN /\ Replies(Ret("insert user_points", "row-level security violation",
                                  NULL, NULL, NULL))
                /\ UNCHANGED <<user_points, acct>>
           ELSE IF HasRow(user_points, u) \/ ~HasRow(profiles, u) \/ ~PointsRowValid(row)
           THEN /\ Replies(Ret("insert user_points", "constraint violation",
                                  NULL, NULL, NULL))
                /\ UNCHANGED <<user_points, acct>>
           ELSE /\ Replies(Ret("insert user_points", "INSERT 0 1", NULL, NULL, NULL))
                /\ user_points' = Put(user_points, u, row)
                /\ acct' = AcctAfter(acct, user_points, user_points')
    /\ UNCHANGED <<auth_users, profiles>>
    /\ UNCHANGED <<cvars, uivars, chvars>>

\* UPDATE user_points SET current_balance = v WHERE user_id = u
ClientUpdatePoints(uid, u, v) ==
    /\ IF ~(HasRow(user_points, u) /\ PointsUpdatable(uid, user_points[u]))
       THEN /\ Replies(Ret("update user_points", "UPDATE 0", NULL, NULL, NULL))
            /\ UNCHANGED user_points
       ELSE LET row == [user_points[u] EXCEPT !.current_balance = v]
            IN  IF ~PointsUpdateAllowed(uid, row)
                THEN /\ Replies(Ret("update user_points",
                                       "row-level security violation", NULL, NULL, NULL))
                     /\ UNCHANGED user_points
                ELSE IF ~PointsRowValid(row)
                THEN /\ Replies(Ret("update user_points", "constraint violation",
                                       NULL, NULL, NULL))
                     /\ UNCHANGED user_points
                ELSE /\ Replies(Ret("update user_points", "UPDATE 1",
                                       NULL, NULL, NULL))
                     /\ user_points' = Put(user_points, u, row)
    /\ UNCHANGED <<auth_users, profiles, acct>>
    /\ UNCHANGED <<cvars, uivars, chvars>>

\* DELETE FROM user_points WHERE user_id = u
ClientDeletePoints(uid, u) ==
    /\ IF ~(HasRow(user_points, u) /\ PointsDeletable(uid, user_points[u]))
       THEN /\ Replies(Ret("delete user_points", "DELETE 0", NULL, NULL, NULL))
            /\ UNCHANGED <<user_points, acct>>
       ELSE /\ Replies(Ret("delete user_points", "DELETE 1", NULL, NULL, NULL))
            /\ user_points' = Del(user_points, u)
            /\ acct' = AcctAfter(acct, user_points, user_points')
    /\ UNCHANGED <<auth_users, profiles>>
    /\ UNCHANGED <<cvars, uivars, chvars>>

\* --------------------------------------------------- calls of the functions

\* acct[u] after a call on u returned r
AcctCounts(a, u, p_amount, r) ==
    IF r.fn = "award_points" /\ r.status = "ok" /\ ~IsNull(r.new_balance)
    THEN [a EXCEPT ![u].earned = @ + p_amount, ![u].entries = @ + 1]
    ELSE IF r.fn = "spend_points" /\ r.status = "ok" /\ r.success = Some(TRUE)
            /\ ~IsNull(r.new_balance)
    THEN [a EXCEPT ![u].spent = @ + p_amount, ![u].entries = @ + 1]
    ELSE a

RECURSIVE SumOver(_, _)
SumOver(S, f) ==
    IF S = {} THEN 0
    ELSE LET x == CHOOSE y \in S : TRUE IN f[x] + SumOver(S \ {x}, f)

\* The model's bound: a call starts while the histories have room for its entry.
HistoryRoom ==
    SumOver(DOMAIN user_points, [u \in DOMAIN user_points |->
                                   Len(user_points[u].points_history)])
      + Cardinality({s \in Sessions : pc[s] # "idle"}) < MaxEntries

\* rpc('award_points', {p_user_id, p_amount}): one statement, one step.
AwardPoints(s, p_user_id, p_amount) ==
    /\ pc[s] = "idle"
    /\ HistoryRoom
    /\ LET t == award_points(user_points, p_user_id, p_amount)
       IN  /\ user_points' = t.user_points
           /\ Returns(s, t.ret)
           /\ acct' = AcctCounts(acct, p_user_id, p_amount, t.ret)
    /\ UNCHANGED <<auth_users, profiles>>
    /\ UNCHANGED <<cvars, uivars, chvars>>

\* rpc('spend_points', {p_user_id, p_amount}) up to its balance check: the
\* validation, the SELECT, and the early return on an insufficient balance.
SpendPointsSelect(s, p_user_id, p_amount) ==
    /\ pc[s] = "idle"
    /\ HistoryRoom
    /\ LET v_current_balance == SelectBalance(user_points, p_user_id)
       IN  IF NotPositive(p_amount)
           THEN Returns(s, Ret("spend_points", "Points amount must be positive",
                              NULL, NULL, NULL))
           ELSE IF InsufficientBalance(v_current_balance, p_amount)
           THEN Returns(s, Ret("spend_points", "ok", v_current_balance, NULL,
                               Some(FALSE)))
           ELSE /\ pc' = [pc EXCEPT ![s] = "spend_update"]
                /\ call' = [call EXCEPT ![s] =
                              [user |-> p_user_id, amount |-> p_amount,
                               found |-> ~IsNull(v_current_balance)]]
                /\ UNCHANGED ret
    /\ UNCHANGED <<auth_users, profiles, user_points, acct>>
    /\ UNCHANGED <<cvars, uivars, chvars>>

\* The rest of spend_points: its UPDATE, on the row as it is by then.
SpendPointsUpdate(s) ==
    /\ pc[s] = "spend_update"
    /\ LET t == spend_points_update(user_points, call[s].user, call[s].amount)
       IN  /\ user_points' = t.user_points
           /\ Returns(s, t.ret)
           /\ acct' = AcctCounts(acct, call[s].user, call[s].amount, t.ret)
    /\ UNCHANGED <<auth_users, profiles>>
    /\ UNCHANGED <<cvars, uivars, chvars>>


\* ---------------------------------------------------- challenge functions

\* rpc('check_challenge_completion', {p_challenge_id}) up to 'Check if target
\* reached': the SELECT and the two early returns.
CheckChallengeSelect(s, p_challenge_id) ==
    /\ pc[s] = "idle"
    /\ LET v_challenge == SelectChallenge(user_challenges, p_challenge_id)
       IN  IF IsNull(v_challenge)
              \/ ~(Val(v_challenge).current_value >= Val(v_challenge).target_value)
           THEN Returns(s, Ret("check_challenge_completion", "ok", NULL, NULL,
                               Some(FALSE)))
           ELSE /\ pc' = [pc EXCEPT ![s] = "check_update"]
                /\ call' = [call EXCEPT ![s] = [p_challenge_id |-> p_challenge_id,
                                                v_challenge |-> Val(v_challenge)]]
                /\ UNCHANGED ret
    /\ UNCHANGED <<auth_users, profiles, user_points, acct>>
    /\ UNCHANGED <<cvars, uivars, chvars>>

\* ... and the rest of the call, which another session's statements may precede.
CheckChallengeUpdate(s) ==
    /\ pc[s] = "check_update"
    /\ LET id == call[s].p_challenge_id
           v_challenge == call[s].v_challenge
           t == check_challenge_completion(user_challenges, user_points, id,
                                           v_challenge, now)
       IN  /\ user_challenges' = t.user_challenges
           /\ user_points' = t.user_points
           /\ acct' = AcctCounts(acct, v_challenge.user_id,
                                 v_challenge.points_reward, t.award)
           /\ paid' = [paid EXCEPT
                         ![id].awards = @ + (IF t.invoked THEN 1 ELSE 0),
                         ![id].trues = @ + (IF t.ret.success = Some(TRUE) THEN 1 ELSE 0)]
           /\ Returns(s, t.ret)
    /\ UNCHANGED <<auth_users, profiles, workouts, activity_sync, user_baselines, now>>
    /\ UNCHANGED <<cvars, uivars>>

\* rpc('expire_old_challenges')
ExpireOldChallenges(s) ==
    /\ pc[s] = "idle"
    /\ LET t == expire_old_challenges(user_challenges, now)
       IN  /\ user_challenges' = t.user_challenges
           /\ Returns(s, [fn |-> "expire_old_challenges", status |-> "ok",
                          v_expired_count |-> t.v_expired_count])
    /\ UNCHANGED <<auth_users, profiles, user_points, acct>>
    /\ UNCHANGED <<workouts, activity_sync, user_baselines, now, paid>>
    /\ UNCHANGED <<cvars, uivars>>

\* a day passes
Tick ==
    /\ now < MaxNow
    /\ now' = now + 1
    /\ UNCHANGED <<dbvars, cvars, uivars, owned, paid>>

\* ------------------------------------------------- the authentication wrappers

\* What the backend answers a call: { data, error } (kind "ok" or "error"), or the
\* awaited call throws an Error ("throw") or some other value ("throw_other").
Reply(kind, code, message, data) ==
    [kind |-> kind, code |-> code, message |-> message, data |-> data]
Thrown(r) == r.kind \in {"throw", "throw_other"}
PGRST116 == "PGRST116"
Failures ==
    {Reply("error", "500", "backend error", NULL),
     Reply("throw", "", "Failed to fetch", NULL),
     Reply("throw_other", "", "aborted", NULL)}
UnknownError == "An unknown error occurred"
UsernameTakenMessage == "Username already taken"

\* Faulty variant: a wrapper without its catch block
catch_rethrows(fn, err) == Rejected(fn)

\* catch (err): err instanceof Error ? err.message : 'An unknown error occurred'
catch(fn, err) ==
    Result(fn, NULL,
           ErrorValue(IF err.kind = "throw" THEN err.message ELSE UnknownError, NULL))

\* from('profiles').select('username').eq('username', name).maybeSingle()
SelectUsername(profs, name) ==
    IF \E k \in DOMAIN profs : profs[k].username = name
    THEN Reply("ok", "", "", Some(name))
    ELSE Reply("ok", "", "", NULL)

\* The answers the username check can get: the row or none, "no rows" reported
\* as error PGRST116, or a failure.
CheckReplies(profs, name) ==
    {SelectUsername(profs, name)}
      \cup (IF IsNull(SelectUsername(profs, name).data)
            THEN {Reply("error", PGRST116, "no rows returned", NULL)} ELSE {})
      \cup Failures

\* Faulty variant: signUp without its availability test
signUp_afterCheck_unchecked(r) ==
    IF Thrown(r) THEN [done |-> TRUE, result |-> catch("signUp", r)]
    ELSE IF r.kind = "error" /\ r.code # PGRST116
    THEN [done |-> TRUE, result |-> Result("signUp", NULL, ErrorValue(r.message, NULL))]
    ELSE [done |-> FALSE, result |-> NoResult]

\* signUp from the answer of its username check to the call of auth.signUp.
signUp_afterCheck(r) ==
    IF Thrown(r) THEN [done |-> TRUE, result |-> catch("signUp", r)]
    ELSE IF ~IsNull(r.data)
    THEN [done |-> TRUE,
          result |-> Result("signUp", NULL,
                            ErrorValue(UsernameTakenMessage, Some("username")))]
    ELSE IF r.kind = "error" /\ r.code # PGRST116
    THEN [done |-> TRUE, result |-> Result("signUp", NULL, ErrorValue(r.message, NULL))]
    ELSE [done |-> FALSE, result |-> NoResult]

\* A wrapper after its auth call was answered: if (error) return { error: {
\* message } }, else the user (signUp, login) and error: null.
afterAuth(fn, r) ==
    IF Thrown(r) THEN catch(fn, r)
    ELSE IF r.kind = "error" THEN Result(fn, NULL, ErrorValue(r.message, NULL))
    ELSE Result(fn, r.data, NULL)

\* client c calls a wrapper, which issues its first backend call
Invoke(c, args, to, endpoint) ==
    /\ wpc[c] = "idle"
    /\ wpc' = [wpc EXCEPT ![c] = to]
    /\ wargs' = [wargs EXCEPT ![c] = args]
    /\ wres' = [wres EXCEPT ![c] = NoResult]
    /\ issued' = [issued EXCEPT ![c] = <<endpoint>>]
    /\ replies' = [replies EXCEPT ![c] = <<>>]

\* the wrapper of client c returns
Resolve(c, r, result) ==
    /\ wpc' = [wpc EXCEPT ![c] = "idle"]
    /\ wargs' = [wargs EXCEPT ![c] = NoArgs]
    /\ wres' = [wres EXCEPT ![c] = result]
    /\ replies' = [replies EXCEPT ![c] = Append(@, r)]

HoldsUsername(profs, name) == \E k \in DOMAIN profs : profs[k].username = name

\* signUp(data) up to its first await.
SignUpCall(c, email, username) ==
    /\ Invoke(c, [email |-> email, username |-> username], "signUp_check",
              "from(profiles).select")
    /\ held' = [held EXCEPT ![c] = [at_call |-> HoldsUsername(profiles, username),
                                    at_check |-> FALSE]]
    /\ UNCHANGED <<dbvars, uivars, chvars>>

\* The username check is answered with r.
SignUpCheckReply(c, r) ==
    /\ wpc[c] = "signUp_check"
    /\ r \in CheckReplies(profiles, wargs[c].username)
    /\ held' = [held EXCEPT ![c].at_check = HoldsUsername(profiles, wargs[c].username)]
    /\ LET t == signUp_afterCheck(r)
       IN  IF t.done
           THEN Resolve(c, r, t.result) /\ UNCHANGED issued
           ELSE /\ wpc' = [wpc EXCEPT ![c] = "signUp_auth"]
                /\ issued' = [issued EXCEPT ![c] = Append(@, "auth.signUp")]
                /\ replies' = [replies EXCEPT ![c] = Append(@, r)]
                /\ UNCHANGED <<wargs, wres>>
    /\ UNCHANGED <<dbvars, uivars, chvars>>

\* auth.signUp fails before it reaches the database.
SignUpAuthFails(c, r) ==
    /\ wpc[c] = "signUp_auth"
    /\ r \in Failures
    /\ Resolve(c, r, afterAuth("signUp", r))
    /\ UNCHANGED <<issued, held>>
    /\ UNCHANGED <<dbvars, uivars, chvars>>

\* auth.signUp inserts the user under a new id, with options.data as metadata.
SignUpAuthReply(c, id) ==
    /\ wpc[c] = "signUp_auth"
    /\ ~HasRow(auth_users, id)
    /\ LET meta == [username |-> Some(wargs[c].username), display_name |-> Some("Al")]
           t == AuthUserInsert(auth_users, profiles, user_points, id,
                               wargs[c].email, meta)
           r == IF t.ok THEN Reply("ok", "", "", Some(id))
                ELSE Reply("error", "", t.err, NULL)
       IN  /\ auth_users' = t.auth_users
           /\ profiles' = t.profiles
           /\ user_points' = t.user_points
           /\ acct' = AcctAfter(acct, user_points, t.user_points)
           /\ Resolve(c, r, afterAuth("signUp", r))
    /\ UNCHANGED <<issued, held>>
    /\ UNCHANGED <<pc, call, ret, uivars, chvars>>

\* login(data)
LoginCall(c, email) ==
    /\ Invoke(c, [email |-> email, username |-> <<>>], "login",
              "auth.signInWithPassword")
    /\ held' = [held EXCEPT ![c] = NoHeld]
    /\ UNCHANGED <<dbvars, uivars, chvars>>

\* The answers signInWithPassword can get: the user of the email, or a failure.
LoginReplies(au, email) ==
    {Reply("ok", "", "", Some(k)) : k \in {x \in DOMAIN au : au[x].email = email}}
      \cup {Reply("error", "", "Invalid login credentials", NULL)}
      \cup Failures

LoginReply(c, r) ==
    /\ wpc[c] = "login"
    /\ r \in LoginReplies(auth_users, wargs[c].email)
    /\ Resolve(c, r, afterAuth("login", r))
    /\ UNCHANGED <<issued, held>>
    /\ UNCHANGED <<dbvars, uivars, chvars>>

\* logout(), resetPassword(email), updatePassword(newPassword): fn names the
\* wrapper, endpoint its one auth call.
Endpoint(fn) ==
    CASE fn = "logout" -> "auth.signOut"
      [] fn = "resetPassword" -> "auth.resetPasswordForEmail"
      [] fn = "updatePassword" -> "auth.updateUser"

PlainWrappers == {"logout", "resetPassword", "updatePassword"}
PlainReplies == {Reply("ok", "", "", NULL)} \cup Failures

PlainCall(c, fn) ==
    /\ Invoke(c, NoArgs, fn, Endpoint(fn))
    /\ held' = [held EXCEPT ![c] = NoHeld]
    /\ UNCHANGED <<dbvars, uivars, chvars>>

PlainReply(c, fn, r) ==
    /\ wpc[c] = fn
    /\ r \in PlainReplies
    /\ Resolve(c, r, afterAuth(fn, r))
    /\ UNCHANGED <<issued, held>>
    /\ UNCHANGED <<dbvars, uivars, chvars>>

\* ------------------------------------------------------------ specification

\* The ledger of two users: their sign-ups, the statements with which a user
\* deletes and re-creates the own profile (which removes and inserts the points
\* row), direct statements on user_points, and the functions.
LedgerSignUps ==
    {[id |-> IdA1, email |-> "a@x.io",
      meta |-> [username |-> Some(Alice), display_name |-> Some("Al")]],
     [id |-> IdB1, email |-> "b@x.io",
      meta |-> [username |-> Some(Bob), display_name |-> Some("Al")]]}
LedgerIds == {u.id : u \in LedgerSignUps}

SignUpStep ==
    \E u \in LedgerSignUps : CreateAuthUser(u.id, u.email, u.meta)

ProfileRowStep ==
    \E uid \in Actors, u \in LedgerSignUps :
        \/ ClientInsertProfile(uid, u.id, Val(u.meta.username))
        \/ ClientDeleteProfile(uid, u.id)

PointsWriteStep ==
    \E uid \in Actors, u \in LedgerIds :
        \/ \E v \in Balances : ClientInsertPoints(uid, u, v)
        \/ \E v \in Balances : ClientUpdatePoints(uid, u, v)
        \/ ClientDeletePoints(uid, u)

FunctionStep ==
    \E s \in Sessions :
        \/ \E u \in LedgerIds, n \in Amounts : AwardPoints(s, u, n)
        \/ \E u \in LedgerIds, n \in Amounts : SpendPointsSelect(s, u, n)
        \/ SpendPointsUpdate(s)

Next == SignUpStep \/ ProfileRowStep \/ PointsWriteStep \/ FunctionStep

Spec == Init /\ [][Next]_vars

\* Sign-up: auth users the service creates with any metadata, the statements
\* clients send to profiles, and signUp calls of two browser clients whose
\* backend calls are answered or fail.
AuthServiceStep ==
    \E id \in UserIds, email \in Emails, meta \in Metas : CreateAuthUser(id, email, meta)

ProfileWriteStep ==
    \E uid \in Actors, id \in UserIds, name \in Usernames :
        \/ ClientInsertProfile(uid, id, name)
        \/ ClientUpdateProfile(uid, id, name)
        \/ ClientDeleteProfile(uid, id)

SignUpReplies ==
    {Reply("ok", "", "", NULL), Reply("error", "500", "backend error", NULL)}
      \cup {Reply("ok", "", "", Some(n)) : n \in Usernames}

SignUpWrapperStep ==
    \E c \in {"c1"} :
        \/ \E email \in Emails, username \in Usernames : SignUpCall(c, email, username)
        \/ \E r \in SignUpReplies : SignUpCheckReply(c, r)
        \/ \E id \in UserIds : SignUpAuthReply(c, id)

NextSignUp == AuthServiceStep \/ ProfileWriteStep \/ SignUpWrapperStep

SpecSignUp == Init /\ [][NextSignUp]_vars

\* Two browser clients sign up with the same username and different emails; the
\* username checks get the answer the table gives, or fail.
RaceSignUps ==
    [c \in Clients |-> [email |-> IF c = "c1" THEN "a@x.io" ELSE "b@x.io",
                        username |-> Alice]]

RaceStep(c) ==
    \/ SignUpCall(c, RaceSignUps[c].email, RaceSignUps[c].username)
    \/ \E r \in CheckReplies(profiles, RaceSignUps[c].username) : SignUpCheckReply(c, r)
    \/ \E r \in Failures : SignUpAuthFails(c, r)
    \/ \E id \in {IdA1, IdB1} : SignUpAuthReply(c, id)

NextRace == \E c \in Clients : RaceStep(c)

SpecRace == Init /\ [][NextRace]_vars

\* The wrappers of one browser client, with every answer the backend can give.
AllReplies ==
    SignUpReplies \cup Failures \cup {Reply("error", PGRST116, "no rows returned", NULL)}
      \cup {Reply("ok", "", "", Some(k)) : k \in UserIds}
      \cup {Reply("error", "", "Invalid login credentials", NULL)}

SignUpWrapper(c) ==
    \/ \E email \in Emails, username \in Usernames : SignUpCall(c, email, username)
    \/ \E r \in AllReplies : SignUpCheckReply(c, r)
    \/ \E r \in AllReplies : SignUpAuthFails(c, r)
    \/ \E id \in UserIds : SignUpAuthReply(c, id)

LoginWrapper(c) ==
    \/ \E email \in Emails : LoginCall(c, email)
    \/ \E r \in AllReplies : LoginReply(c, r)

PlainWrapper(c) ==
    \E fn \in PlainWrappers :
        \/ PlainCall(c, fn)
        \/ \E r \in AllReplies : PlainReply(c, fn, r)

NextWrappers == SignUpWrapper("c1") \/ LoginWrapper("c1") \/ PlainWrapper("c1")

SpecWrappers == Init /\ [][NextWrappers]_vars

\* ------------------------------------- specification: row level security

\* The rows the clients send: a workout, sync state or baseline of a user ...
OwnerRows == {[user_id |-> u] : u \in LedgerIds}

\* ... and a challenge of a user.
ChallengeRows(values, rewards) ==
    [user_id : LedgerIds, target_value : {1}, current_value : values,
     status : {"active"}, points_reward : rewards, ends_at : {1},
     completed_at : {NULL}]

RLSRows(name) == IF name = "user_challenges" THEN ChallengeRows({0}, {1}) ELSE OwnerRows
RLSIds(name) == IF name = "workouts" THEN {"r1", "r2"} ELSE {"r1"}

RLSSelectStep ==
    \E name \in OwnedTables, uid \in Actors : ClientSelectRows(name, uid)

RLSInsertStep ==
    \E name \in OwnedTables, uid \in Actors :
        \E id \in RLSIds(name), row \in RLSRows(name) :
            ClientInsertRow(name, uid, id, row)

RLSUpdateStep ==
    \E name \in OwnedTables, uid \in Actors :
        \E id \in RLSIds(name), row \in RLSRows(name) :
            ClientUpdateRow(name, uid, id, row)

RLSDeleteStep ==
    \E name \in OwnedTables, uid \in Actors :
        \E id \in RLSIds(name) : ClientDeleteRow(name, uid, id)

RLSProfileDeleteStep ==
    \E uid \in Actors, id \in LedgerIds : ClientDeleteProfile(uid, id)

NextRLS ==
    \/ SignUpStep
    \/ RLSSelectStep
    \/ RLSInsertStep
    \/ RLSUpdateStep
    \/ RLSDeleteStep
    \/ RLSProfileDeleteStep

SpecRLS == Init /\ [][NextRLS]_vars

\* ------------------------------------------ specification: challenges

\* Challenges come into being by INSERT, short of their target or at it; two
\* database sessions call the challenge functions; days pass.
ChallengeInsertStep ==
    \E id \in ChallengeIds, row \in ChallengeRows({0, 1}, {0, 1}) :
        ClientInsertRow("user_challenges", row.user_id, id, row)

ChallengeFunctionStep ==
    \E s \in Sessions :
        \/ \E id \in ChallengeIds : CheckChallengeSelect(s, id)
        \/ CheckChallengeUpdate(s)
        \/ ExpireOldChallenges(s)

NextChallenges == SignUpStep \/ ChallengeInsertStep \/ ChallengeFunctionStep \/ Tick

SpecChallenges == Init /\ [][NextChallenges]_vars

\* ------------------------------------------------------ the sign-up and login pages

\* Strings are sequences of characters.
Upper == {"A", "B", "C", "D", "E", "F", "G", "H", "I", "J", "K", "L", "M",
          "N", "O", "P", "Q", "R", "S", "T", "U", "V", "W", "X", "Y", "Z"}
Lower == {"a", "b", "c", "d", "e", "f", "g", "h", "i", "j", "k", "l", "m",
          "n", "o", "p", "q", "r", "s", "t", "u", "v", "w", "x", "y", "z"}
Digit == {"0", "1", "2", "3", "4", "5", "6", "7", "8", "9"}
Whitespace == {" "}
Chars(str) == {str[i] : i \in 1..Len(str)}

\* /^[^\s@]+@[^\s@]+\.[^\s@]+$/.test(email)
isValidEmail(email) ==
    \E i \in 1..Len(email), j \in 1..Len(email) :
        /\ email[i] = "@" /\ email[j] = "."
        /\ 1 < i /\ i + 1 < j /\ j < Len(email)
        /\ \A k \in 1..Len(email) :
               email[k] \notin Whitespace /\ (email[k] = "@" => k = i)

Valid == [valid |-> TRUE, message |-> NULL]
Invalid(message) == [valid |-> FALSE, message |-> Some(message)]

\* Faulty variant: a password check that looks at the length only
validatePassword_length_only(password) ==
    IF Len(password) < 8
    THEN Invalid("Password must be at least 8 characters")
    ELSE Valid

validatePassword(password) ==
    IF Len(password) < 8
    THEN Invalid("Password must be at least 8 characters")
    ELSE IF Chars(password) \cap Upper = {}
    THEN Invalid("Password must contain at least one uppercase letter")
    ELSE IF Chars(password) \cap Lower = {}
    THEN Invalid("Password must contain at least one lowercase letter")
    ELSE IF Chars(password) \cap Digit = {}
    THEN Invalid("Password must contain at least one number")
    ELSE Valid

validateUsername(username) ==
    IF Len(username) < 3
    THEN Invalid("Username must be at least 3 characters")
    ELSE IF Len(username) > 20
    THEN Invalid("Username must be no more than 20 characters")
    ELSE IF ~(Len(username) >= 1
              /\ Chars(username) \subseteq Upper \cup Lower \cup Digit \cup {"_"})
    THEN Invalid("Username can only contain letters, numbers, and underscores")
    ELSE Valid

\* An object built from the (key, value) pairs that were assigned.
Object(pairs) ==
    [k \in {q[1] : q \in pairs} |-> (CHOOSE q \in pairs : q[1] = k)[2]]
Keys(obj) == DOMAIN obj

Pages == {"signup", "login"}

\* useState: the fields of the form, all ''.
InitialFormData(p) ==
    IF p = "signup"
    THEN [email |-> <<>>, password |-> <<>>, confirmPassword |-> <<>>,
          username |-> <<>>, displayName |-> <<>>]
    ELSE [email |-> <<>>, password |-> <<>>]

EmailErrors(fd) ==
    IF fd.email = <<>> THEN {<<"email", "Email is required">>}
    ELSE IF ~isValidEmail(fd.email) THEN {<<"email", "Please enter a valid email">>}
    ELSE {}

\* newErrors of the sign-up page's validateForm
SignupErrors(fd) ==
    Object(
      EmailErrors(fd)
      \cup (IF fd.password = <<>> THEN {<<"password", "Password is required">>}
            ELSE IF ~validatePassword(fd.password).valid
            THEN {<<"password", Val(validatePassword(fd.password).message)>>}
            ELSE {})
      \cup (IF fd.confirmPassword = <<>>
            THEN {<<"confirmPassword", "Please confirm your password">>}
            ELSE IF fd.password # fd.confirmPassword
            THEN {<<"confirmPassword", "Passwords do not match">>}
            ELSE {})
      \cup (IF fd.username = <<>> THEN {<<"username", "Username is required">>}
            ELSE IF ~validateUsername(fd.username).valid
            THEN {<<"username", Val(validateUsername(fd.username).message)>>}
            ELSE {})
      \cup (IF fd.displayName = <<>>
            THEN {<<"displayName", "Display name is required">>}
            ELSE IF Len(fd.displayName) < 2
            THEN {<<"displayName", "Display name must be at least 2 characters">>}
            ELSE {}))

\* newErrors of the login page's validateForm
LoginErrors(fd) ==
    Object(
      EmailErrors(fd)
      \cup (IF fd.password = <<>> THEN {<<"password", "Password is required">>}
            ELSE {}))

validateForm(p, fd) == IF p = "signup" THEN SignupErrors(fd) ELSE LoginErrors(fd)

\* The argument handleSubmit passes to signUp / login.
SubmitData(p, fd) ==
    IF p = "signup"
    THEN [fn |-> "signUp", email |-> fd.email, password |-> fd.password,
          username |-> fd.username, displayName |-> fd.displayName]
    ELSE [fn |-> "login", email |-> fd.email, password |-> fd.password]

\* Faulty variant: every returned error shown as a general one
ErrorKey_general_only(p, error) == "general"

\* The key handleSubmit puts a returned error under.
ErrorKey(p, error) ==
    IF p = "signup" /\ ~IsNull(error.field) /\ Val(error.field) # ""
    THEN Val(error.field) ELSE "general"

\* What the visitor types.
EmailInputs == {<<>>, <<"a", "@", "b">>, <<"a", "@", "b", ".", "c">>}
PasswordInputs ==
    {<<>>, <<"A", "b", "1">>, <<"a", "b", "c", "d", "e", "f", "g", "1">>,
     <<"A", "b", "c", "d", "e", "f", "g", "1">>}
UsernameInputs == {<<>>, <<"a", "b">>, <<"a", "-", "b">>, Bob}
DisplayNameInputs == {<<>>, <<"A">>, <<"A", "l">>}
Inputs(field) ==
    CASE field = "email" -> EmailInputs
      [] field = "password" -> PasswordInputs
      [] field = "confirmPassword" -> PasswordInputs \ {<<"A", "b", "1">>}
      [] field = "username" -> UsernameInputs
      [] field = "displayName" -> DisplayNameInputs

\* What signUp / login can resolve to.
SignUpOutcomes ==
    {Result("signUp", NULL, ErrorValue(UsernameTakenMessage, Some("username")))}
      \cup {afterAuth("signUp", r) :
              r \in Failures \cup {Reply("ok", "", "", Some(k)) : k \in UserIds}
                    \cup {Reply("error", "", "User already registered", NULL)}}
LoginOutcomes ==
    {afterAuth("login", r) :
        r \in Failures \cup {Reply("ok", "", "", Some(k)) : k \in UserIds}
              \cup {Reply("error", "", "Invalid login credentials", NULL)}}
Outcomes(p) == IF p = "signup" THEN SignUpOutcomes ELSE LoginOutcomes

\* The visitor opens /auth/signup or /auth/login.
Mount(p) ==
    /\ page = "none"
    /\ page' = p
    /\ formData' = InitialFormData(p)
    /\ errors' = <<>>
    /\ loading' = FALSE
    /\ UNCHANGED <<submitted, pushed, hookvars>>
    /\ UNCHANGED <<dbvars, cvars, chvars>>

\* handleChange(field): the field is set and its error, if shown, blanked.
HandleChange(field, value) ==
    /\ page \in Pages
    /\ field \in DOMAIN formData
    /\ formData' = [formData EXCEPT ![field] = value]
    /\ errors' = IF field \in Keys(errors) /\ errors[field] # ""
                 THEN [errors EXCEPT ![field] = ""]
                 ELSE errors
    /\ UNCHANGED <<page, loading, submitted, pushed, hookvars>>
    /\ UNCHANGED <<dbvars, cvars, chvars>>

\* handleSubmit up to its await.  The submit button is out of use while loading.
Submit ==
    /\ page \in Pages
    /\ ~loading
    /\ LET newErrors == validateForm(page, formData)
       IN  IF Keys(newErrors) # {}
           THEN /\ errors' = newErrors
                /\ UNCHANGED <<loading, submitted>>
           ELSE /\ loading' = TRUE
                /\ errors' = <<>>
                /\ submitted' = Some(SubmitData(page, formData))
    /\ UNCHANGED <<page, formData, pushed, hookvars>>
    /\ UNCHANGED <<dbvars, cvars, chvars>>

\* handleSubmit after signUp / login resolved to result.
SubmitReply(result) ==
    /\ page \in Pages
    /\ ~IsNull(submitted)
    /\ result \in Outcomes(page)
    /\ submitted' = NULL
    /\ IF ~IsNull(result.error)
       THEN /\ errors' = Object({<<ErrorKey(page, Val(result.error)),
                                   Val(result.error).message>>})
            /\ loading' = FALSE
            /\ UNCHANGED pushed
       ELSE IF ~IsNull(result.user)
       THEN /\ pushed' = pushed \cup {"/dashboard"}
            /\ UNCHANGED <<errors, loading>>
       ELSE UNCHANGED <<errors, loading, pushed>>
    /\ UNCHANGED <<page, formData, hookvars>>
    /\ UNCHANGED <<dbvars, cvars, chvars>>

FormFields == {"email", "password", "confirmPassword", "username", "displayName"}

NextForms ==
    \/ \E p \in Pages : Mount(p)
    \/ \E field \in FormFields : \E value \in Inputs(field) : HandleChange(field, value)
    \/ Submit
    \/ \E result \in SignUpOutcomes \cup LoginOutcomes : SubmitReply(result)

SpecForms == Init /\ [][NextForms]_vars

\* ------------------------------------------------------------ the auth hooks

Hooks == {"useRedirectIfAuthenticated", "useRequireAuth", "useAuth"}

\* Faulty variant: redirects that do not wait for the initial auth state
Effect_ignores_loading(h, u, l, routes) ==
    IF h = "useRequireAuth" /\ IsNull(u) THEN routes \cup {"/auth/login"}
    ELSE IF h = "useRedirectIfAuthenticated" /\ ~IsNull(u)
    THEN routes \cup {"/dashboard"}
    ELSE routes

\* Faulty variant: redirects that do not look at the user
Effect_ignores_user(h, u, l, routes) ==
    IF h = "useRequireAuth" /\ ~l THEN routes \cup {"/auth/login"}
    ELSE IF h = "useRedirectIfAuthenticated" /\ ~l THEN routes \cup {"/dashboard"}
    ELSE routes

\* The useEffect of the hook h, run after a render with user u and loading l:
\* the routes pushed after it.
Effect(h, u, l, routes) ==
    IF h = "useRequireAuth" /\ ~l /\ IsNull(u) THEN routes \cup {"/auth/login"}
    ELSE IF h = "useRedirectIfAuthenticated" /\ ~l /\ ~IsNull(u)
    THEN routes \cup {"/dashboard"}
    ELSE routes

\* useProfile's useEffect, run after a render with user u and userLoading
\* false: without a user it clears the profile, with one it starts fetchProfile.
ProfileEffect(u) ==
    IF hook # "useProfile"
    THEN UNCHANGED pvars
    ELSE IF IsNull(u)
    THEN /\ profile' = NULL
         /\ profileLoading' = FALSE
         /\ UNCHANGED <<profileError, fetches>>
    ELSE /\ fetches' = fetches \cup {Val(u)}
         /\ UNCHANGED <<profile, profileLoading, profileError>>

\* setUser(u); setLoading(false); and the effects of the render that follows.
SetUser(u) ==
    /\ hookUser' = u
    /\ userLoading' = FALSE
    /\ pushed' = Effect(hook, u, FALSE, pushed)
    /\ ProfileEffect(u)

\* The auth client's session changes to s; a mounted hook's listener will hear it.
SessionChange(s) ==
    /\ session' = s
    /\ events' = IF hook = "none" THEN events ELSE Append(events, s)

\* A component using the hook h mounts: useUser's first render and its effect,
\* which calls getUser and subscribes to onAuthStateChange.
MountHook(h) ==
    /\ hook = "none"
    /\ hook' = h
    /\ hookUser' = NULL
    /\ userLoading' = TRUE
    /\ getUser' = [state |-> "requested", user |-> NULL]
    /\ pushed' = Effect(h, NULL, TRUE, pushed)
    /\ UNCHANGED <<session, events, signOut>>
    /\ UNCHANGED <<formvars, dbvars, cvars, chvars>>
    /\ profile' = NULL /\ profileLoading' = TRUE /\ profileError' = NULL
    /\ UNCHANGED fetches

\* The visitor signs in (in this tab or another one).
SignIn(u) ==
    /\ IsNull(session)
    /\ Len(events) < MaxEvents
    /\ SessionChange(Some(u))
    /\ UNCHANGED <<hook, hookUser, userLoading, getUser, signOut, pushed>>
    /\ UNCHANGED <<formvars, dbvars, cvars, chvars, pvars>>

\* The session ends outside useAuth's signOut (another tab, expiry).
SessionEnds ==
    /\ ~IsNull(session)
    /\ Len(events) < MaxEvents
    /\ SessionChange(NULL)
    /\ UNCHANGED <<hook, hookUser, userLoading, getUser, signOut, pushed>>
    /\ UNCHANGED <<formvars, dbvars, cvars, chvars, pvars>>

\* The auth service answers getUser with the user of the session it finds.
GetUserServe ==
    /\ getUser.state = "requested"
    /\ getUser' = [state |-> "served", user |-> session]
    /\ UNCHANGED <<hook, session, hookUser, userLoading, events, signOut, pushed>>
    /\ UNCHANGED <<formvars, dbvars, cvars, chvars, pvars>>

\* getUser().then(({ data: { user } }) => ...)
GetUserResolve ==
    /\ getUser.state = "served"
    /\ getUser' = [getUser EXCEPT !.state = "done"]
    /\ SetUser(getUser.user)
    /\ UNCHANGED <<hook, session, events, signOut>>
    /\ UNCHANGED <<formvars, dbvars, cvars, chvars>>

\* onAuthStateChange((_event, session) => ...)
AuthEvent ==
    /\ events # <<>>
    /\ events' = Tail(events)
    /\ SetUser(Head(events))
    /\ UNCHANGED <<hook, session, getUser, signOut>>
    /\ UNCHANGED <<formvars, dbvars, cvars, chvars>>

\* useAuth's signOut up to its await.
SignOutCall ==
    /\ hook = "useAuth"
    /\ signOut \in {"none", "done", "rejected"}
    /\ signOut' = "awaiting"
    /\ UNCHANGED <<hook, session, hookUser, userLoading, getUser, events, pushed>>
    /\ UNCHANGED <<formvars, dbvars, cvars, chvars, pvars>>

\* How supabase.auth.signOut() can end: the session is removed; { error } is
\* returned, with the session removed or left in place; or the call throws.
SignOutOutcomes == {"ok", "error", "error_session_kept", "throw"}

\* signOut after its await: it does not look at what the call returned.
SignOutReply(outcome) ==
    /\ signOut = "awaiting"
    /\ Len(events) < MaxEvents
    /\ IF outcome \in {"ok", "error"} /\ ~IsNull(session)
       THEN SessionChange(NULL)
       ELSE UNCHANGED <<session, events>>
    /\ IF outcome = "throw"
       THEN signOut' = "rejected" /\ UNCHANGED pushed
       ELSE signOut' = "done" /\ pushed' = pushed \cup {"/"}
    /\ UNCHANGED <<hook, hookUser, userLoading, getUser>>
    /\ UNCHANGED <<formvars, dbvars, cvars, chvars, pvars>>

\* How fetchProfile's query can end: the row with id = user.id; { error } (no
\* row, or a backend error), which is thrown and is no Error; a rejected fetch.
ProfileOutcomes == {"row", "error", "throw"}

\* fetchProfile for user u after its await: try, catch, finally.
ProfileFetchReply(u, outcome) ==
    /\ hook = "useProfile"
    /\ u \in fetches
    /\ fetches' = fetches \ {u}
    /\ IF outcome = "row"
       THEN profile' = Some(u) /\ profileError' = NULL
       ELSE /\ profile' = NULL
            /\ profileError' = Some(IF outcome = "throw" THEN "Failed to fetch"
                                    ELSE "Failed to load profile")
    /\ profileLoading' = FALSE
    /\ UNCHANGED <<hook, session, hookUser, userLoading, getUser, events, signOut,
                   pushed>>
    /\ UNCHANGED <<formvars, dbvars, cvars, chvars>>

NextHooks ==
    \/ \E h \in Hooks : MountHook(h)
    \/ \E u \in LedgerIds : SignIn(u)
    \/ SessionEnds
    \/ GetUserServe
    \/ GetUserResolve
    \/ AuthEvent
    \/ SignOutCall
    \/ \E outcome \in SignOutOutcomes : SignOutReply(outcome)

SpecHooks == Init /\ [][NextHooks]_vars

\* The auth service answers, promises resolve and listeners are called.
SpecHooksFair ==
    /\ SpecHooks
    /\ WF_vars(GetUserServe) /\ WF_vars(GetUserResolve) /\ WF_vars(AuthEvent)

\* useProfile in a mounted component: the visitor signs in and out, the auth
\* service and the profile queries answer in any order.
NextProfile ==
    \/ MountHook("useProfile")
    \/ \E u \in LedgerIds : SignIn(u)
    \/ SessionEnds
    \/ GetUserServe
    \/ GetUserResolve
    \/ AuthEvent
    \/ \E u \in LedgerIds, outcome \in ProfileOutcomes : ProfileFetchReply(u, outcome)

SpecProfile == Init /\ [][NextProfile]_vars

\* =================================================================== claims

IsPrefix(h, g) == Len(h) <= Len(g) /\ SubSeq(g, 1, Len(h)) = h

\* C1: a statement a client sends straight to user_points, whoever sends it (the
\* row's owner included), is turned down by row-level security and leaves the
\* table as it was; a step that inserts, changes or removes a points row is the
\* profile-insert trigger, award_points, spend_points' UPDATE or the cascade of a
\* profile delete.
C1_DirectWritesRejected ==
    [][/\ ret'.fn = "insert user_points" =>
            \A uid \in Actors, u \in LedgerIds, v \in Balances :
                ClientInsertPoints(uid, u, v) =>
                    /\ user_points' = user_points
                    /\ ret'.status = "row-level security violation"
       /\ ret'.fn = "update user_points" =>
            \A uid \in Actors, u \in LedgerIds, v \in Balances :
                ClientUpdatePoints(uid, u, v) =>
                    user_points' = user_points /\ ret'.status = "UPDATE 0"
       /\ ret'.fn = "delete user_points" =>
            \A uid \in Actors, u \in LedgerIds :
                ClientDeletePoints(uid, u) =>
                    user_points' = user_points /\ ret'.status = "DELETE 0"
       /\ user_points' # user_points =>
            \/ SignUpStep
            \/ \E uid \in Actors, u \in LedgerSignUps :
                   \/ ClientInsertProfile(uid, u.id, Val(u.meta.username))
                   \/ ClientDeleteProfile(uid, u.id)
            \/ \E s \in Sessions :
                   \/ \E u \in LedgerIds, n \in Amounts : AwardPoints(s, u, n)
                   \/ SpendPointsUpdate(s)]_vars

\* a user who holds points had a direct UPDATE of user_points turned down
C1_Witness ==
    /\ ret.fn = "update user_points" /\ ret.status = "UPDATE 0"
    /\ \E u \in DOMAIN user_points : user_points[u].current_balance > 0

\* C2: no points row ever holds a negative current_balance, total_earned or
\* total_spent, whatever the interleaving of award_points and spend_points.
C2_NonNegative ==
    \A u \in DOMAIN user_points :
        /\ user_points[u].current_balance >= 0
        /\ user_points[u].total_earned >= 0
        /\ user_points[u].total_spent >= 0

\* two spend_points calls raced for a balance that covered one of them
C2_Witness ==
    /\ ret.fn = "spend_points" /\ ret.status = "check constraint violated"
    /\ \E u \in DOMAIN user_points :
           user_points[u].current_balance = 0 /\ user_points[u].total_spent > 0

\* C3: no update is lost: a row's current_balance is what the award_points calls on
\* it returned as awarded minus what the spend_points calls that returned success
\* = true spent, and its history holds one entry per such call.
C3_NoLostUpdate ==
    \A u \in DOMAIN user_points :
        /\ user_points[u].current_balance = acct[u].earned - acct[u].spent
        /\ Len(user_points[u].points_history) = acct[u].entries

\* an award and a spend went through on a row while another spend on it is under way
C3_Witness ==
    \E u \in DOMAIN user_points :
        /\ acct[u].earned > 0 /\ acct[u].spent > 0
        /\ \E s \in Sessions : pc[s] = "spend_update" /\ call[s].user = u

\* C4: award_points(u, n), n > 0, on an existing row adds n to current_balance and
\* total_earned, leaves total_spent, level and weekly_goal, appends one entry
\* (n, 'earned') and returns the new current_balance and total_earned.
C4_AwardEffect ==
    [][\A s \in Sessions, u \in LedgerIds, n \in Amounts :
         (n > 0 /\ HasRow(user_points, u) /\ ret'.fn = "award_points"
            /\ AwardPoints(s, u, n)) =>
            LET old == user_points[u]
                new == user_points'[u]
            IN  /\ HasRow(user_points', u)
                /\ new.current_balance = old.current_balance + n
                /\ new.total_earned = old.total_earned + n
                /\ new.total_spent = old.total_spent
                /\ new.level = old.level
                /\ new.weekly_goal = old.weekly_goal
                /\ new.points_history =
                       Append(old.points_history, [amount |-> n, type |-> "earned"])
                /\ ret' = Ret("award_points", "ok", Some(new.current_balance),
                              Some(new.total_earned), NULL)
                /\ \A w \in DOMAIN user_points \ {u} :
                       HasRow(user_points', w) /\ user_points'[w] = user_points[w]]_vars

\* an award returned on a row that had spent points before
C4_Witness ==
    /\ ret.fn = "award_points" /\ ret.status = "ok" /\ ~IsNull(ret.new_total_earned)
    /\ \E u \in DOMAIN user_points :
           /\ user_points[u].total_spent > 0
           /\ ret.new_balance = Some(user_points[u].current_balance)
           /\ ret.new_total_earned = Some(user_points[u].total_earned)

\* C5: spend_points(u, n), n > 0, on an existing row: with current_balance < n it
\* returns (current_balance, false) and leaves the row; otherwise it takes n off
\* current_balance, adds n to total_spent, leaves total_earned, appends one entry
\* (-n, 'spent') and returns (new balance, true).
C5_SpendContract ==
    [][/\ \A s \in Sessions, u \in LedgerIds, n \in Amounts :
            (n > 0 /\ HasRow(user_points, u) /\ user_points[u].current_balance < n
                /\ ret'.fn = "spend_points" /\ SpendPointsSelect(s, u, n)) =>
               /\ user_points' = user_points
               /\ ret' = Ret("spend_points", "ok", Some(user_points[u].current_balance),
                             NULL, Some(FALSE))
       /\ \A s \in Sessions :
            (pc[s] = "spend_update" /\ call[s].found
                /\ HasRow(user_points, call[s].user) /\ SpendPointsUpdate(s)) =>
               LET u == call[s].user
                   n == call[s].amount
                   old == user_points[u]
                   new == user_points'[u]
               IN  /\ HasRow(user_points', u)
                   /\ new.current_balance = old.current_balance - n
                   /\ new.total_spent = old.total_spent + n
                   /\ new.total_earned = old.total_earned
                   /\ new.points_history =
                          Append(old.points_history, [amount |-> -n, type |-> "spent"])
                   /\ ret' = Ret("spend_points", "ok", Some(new.current_balance), NULL,
                                 Some(TRUE))]_vars

\* C6: every step leaves the history of a row that stays in the table as a prefix
\* of its new history.
C6_AppendOnly ==
    [][\A u \in DOMAIN user_points :
         HasRow(user_points', u) =>
            IsPrefix(user_points[u].points_history, user_points'[u].points_history)]_vars

\* a history that grew twice
C6_Witness ==
    \E u \in DOMAIN user_points : Len(user_points[u].points_history) >= 2

\* C7: a step that creates an auth user creates with it the one profile of that
\* id, named as the sign-up metadata says or 'user_' plus the id's first 8
\* characters without, and the one points row of that id with balance 0, earned
\* 0, spent 0, level 1 and no history; and every profile has its points row.
C7_Username(id, username) ==
    IF IsNull(username)
    THEN <<"u", "s", "e", "r", "_", id[1], id[2], id[3], id[4], id[5], id[6], id[7], id[8]>>
    ELSE Val(username)

C7_Created(id) ==
    /\ DOMAIN profiles' = DOMAIN profiles \cup {id}
    /\ DOMAIN user_points' = DOMAIN user_points \cup {id}
    /\ ~HasRow(profiles, id) /\ ~HasRow(user_points, id)
    /\ \A k \in DOMAIN profiles : profiles'[k] = profiles[k]
    /\ \A k \in DOMAIN user_points : user_points'[k] = user_points[k]
    /\ user_points'[id].current_balance = 0
    /\ user_points'[id].total_earned = 0
    /\ user_points'[id].total_spent = 0
    /\ user_points'[id].level = 1
    /\ user_points'[id].points_history = <<>>
    /\ \/ \E email \in Emails, meta \in Metas :
              /\ CreateAuthUser(id, email, meta)
              /\ profiles'[id].username = C7_Username(id, meta.username)
       \/ \E c \in Clients :
              /\ SignUpAuthReply(c, id)
              /\ profiles'[id].username = wargs[c].username

C7_SignUpCreatesRows ==
    /\ [](\A id \in DOMAIN profiles : HasRow(user_points, id))
    /\ [][auth_users' # auth_users =>
            \A id \in UserIds :
                (~HasRow(auth_users, id) /\ HasRow(auth_users', id)) => C7_Created(id)]_vars

C7_Witness ==
    /\ HasRow(auth_users, IdA2)
    /\ HasRow(profiles, IdA2)
    /\ profiles[IdA2].username = <<"u", "s", "e", "r", "_", "a", "0", "0", "0", "0", "0", "0", "0">>
    /\ HasRow(user_points, IdA2)
    /\ ~IsNull(wres["c1"].user)

\* C8: at no time do two profiles carry the same username, whatever the order
\* of sign-ups and of the statements clients send to profiles.
C8_UniqueUsernames ==
    \A a \in DOMAIN profiles, b \in DOMAIN profiles :
        a # b => profiles[a].username # profiles[b].username

\* a sign-up passed its check and was then refused by the database, and a
\* client's UPDATE to a taken name was refused too
C8_Witness ==
    /\ Cardinality(DOMAIN profiles) = 2
    /\ wres["c1"].error = ErrorValue("Database error saving new user", NULL)
    /\ ret.fn = "update profiles" /\ ret.status = "constraint violation"

Range(q) == {q[i] : i \in DOMAIN q}
TakenResult == Result("signUp", NULL, ErrorValue(UsernameTakenMessage, Some("username")))
CheckPassed(r) ==
    /\ IsNull(r.data)
    /\ r.kind \in {"ok", "error"}
    /\ r.kind = "error" => r.code = PGRST116

\* C9: a signUp called with a username some profile holds returns user null
\* with the error 'Username already taken' on field 'username' and does not
\* call auth.signUp; and auth.signUp is called only after the username check
\* came back with no row and no error other than PGRST116.
C9_TakenUsernameRefused ==
    \A c \in Clients :
        /\ held[c].at_call => "auth.signUp" \notin Range(issued[c])
        /\ (held[c].at_call /\ wpc[c] = "idle") => wres[c] = TakenResult
        /\ "auth.signUp" \in Range(issued[c]) => CheckPassed(replies[c][1])

\* C9 as the code has it: the username is refused when the check, run while a
\* profile holds it, is answered; a check that fails (with an error other than
\* PGRST116, or by throwing) makes signUp return that failure's message
\* instead, again without calling auth.signUp.
C9_TakenUsernameRefused_amended ==
    \A c \in Clients :
        /\ held[c].at_check => "auth.signUp" \notin Range(issued[c])
        /\ (held[c].at_check /\ wpc[c] = "idle") =>
              /\ IsNull(wres[c].user) /\ ~IsNull(wres[c].error)
              /\ replies[c][1].kind = "ok" => wres[c] = TakenResult
              /\ replies[c][1].kind = "error" =>
                    wres[c].error = ErrorValue(replies[c][1].message, NULL)
              /\ replies[c][1].kind = "throw" =>
                    wres[c].error = ErrorValue(replies[c][1].message, NULL)
        /\ "auth.signUp" \in Range(issued[c]) => CheckPassed(replies[c][1])

C9_Witness ==
    /\ wpc["c1"] = "idle"
    /\ held["c1"].at_call /\ held["c1"].at_check
    /\ wres["c1"] = TakenResult
    /\ issued["c1"] = <<"from(profiles).select">>

NoRepeat(q) == \A i \in DOMAIN q, j \in DOMAIN q : i # j => q[i] # q[j]
Failed(r) == r.kind # "ok"

Ignored(fn, i, r) == fn = "signUp" /\ i = 1 /\ r.kind = "error" /\ r.code = PGRST116
\* the message a failure is reported with
Reported(r) == IF r.kind = "throw_other" THEN UnknownError ELSE r.message

C11_FieldOk(p, fd, field) ==
    CASE field = "email" -> fd.email = <<"a", "@", "b", ".", "c">>
      [] field = "password" ->
            IF p = "signup"
            THEN fd.password = <<"A", "b", "c", "d", "e", "f", "g", "1">>
            ELSE fd.password # <<>>
      [] field = "confirmPassword" ->
            fd.confirmPassword # <<>> /\ fd.confirmPassword = fd.password
      [] field = "username" -> fd.username = Bob
      [] field = "displayName" -> fd.displayName = <<"A", "l">>

\* C11: a submit of the sign-up or login form issues its backend call only when
\* every field is filled in and valid; with a field empty or invalid (email
\* format, weak password, passwords that differ, bad username, display name
\* under 2 characters) it issues none and sets an error message for each such
\* field.  No other step issues the call.
C11_SubmitValidates ==
    [][LET bad == {f \in DOMAIN formData : ~C11_FieldOk(page, formData, f)}
       IN  /\ submitted' # submitted /\ ~IsNull(submitted') => Submit /\ bad = {}
           /\ Submit /\ bad # {} =>
                 /\ submitted' = submitted
                 /\ \A f \in bad : f \in Keys(errors') /\ errors'[f] # ""
           /\ Submit /\ bad = {} => submitted' = Some(SubmitData(page, formData))]_vars

\* a sign-up form with two bad fields was turned down, then one was retyped
C11_Witness ==
    /\ page = "signup" /\ IsNull(submitted) /\ ~loading
    /\ Keys(errors) = {"confirmPassword", "username"}
    /\ errors["confirmPassword"] = "Passwords do not match"
    /\ errors["username"] = ""

\* C14: when signUp / login has resolved, the page pushes /dashboard only if the
\* result holds a user and no error; on a result with an error it pushes
\* nothing, shows the message under the error's field, or under 'general'
\* without one, and sets loading to false.
C14_RedirectOnlyOnUser ==
    [][\A result \in SignUpOutcomes \cup LoginOutcomes :
          SubmitReply(result) =>
             /\ pushed' # pushed => ~IsNull(result.user) /\ IsNull(result.error)
             /\ ~IsNull(result.error) =>
                   LET error == Val(result.error)
                       key == IF IsNull(error.field) THEN "general" ELSE Val(error.field)
                   IN  /\ pushed' = pushed
                       /\ key \in Keys(errors') /\ errors'[key] = error.message
                       /\ loading' = FALSE]_vars

\* the sign-up page shows that the username is taken
C14_Witness ==
    /\ page = "signup" /\ IsNull(submitted) /\ ~loading
    /\ Keys(errors) = {"username"}
    /\ errors["username"] = UsernameTakenMessage
    /\ pushed = {}

\* C12: on a page that uses useRedirectIfAuthenticated, /dashboard is pushed only
\* by a render with loading false and a user, every such render has pushed it,
\* and a visitor who is signed in is redirected in the end (unless the session
\* ends first).
C12_RedirectIfAuthenticated ==
    /\ [][("/dashboard" \in pushed' /\ "/dashboard" \notin pushed) =>
             /\ hook' = "useRedirectIfAuthenticated"
             /\ ~userLoading' /\ ~IsNull(hookUser')]_vars
    /\ []((hook = "useRedirectIfAuthenticated" /\ ~userLoading /\ ~IsNull(hookUser))
             => "/dashboard" \in pushed)
    /\ (hook = "useRedirectIfAuthenticated" /\ ~IsNull(session))
          ~> ("/dashboard" \in pushed \/ IsNull(session))

\* a visitor who signed in before opening the page was redirected by getUser's answer
C12_Witness ==
    /\ hook = "useRedirectIfAuthenticated"
    /\ getUser = [state |-> "done", user |-> session]
    /\ ~IsNull(session) /\ events = <<>>
    /\ pushed = {"/dashboard"}

\* C13: on a page that uses useRequireAuth, /auth/login is pushed only by a
\* render with loading false and no user, never while the initial state is
\* loading or a user is there, every such render has pushed it, and a visitor
\* who is not signed in is redirected in the end (unless a sign-in comes first).
C13_RequireAuth ==
    /\ [][("/auth/login" \in pushed' /\ "/auth/login" \notin pushed) =>
             /\ hook' = "useRequireAuth"
             /\ ~userLoading' /\ IsNull(hookUser')]_vars
    /\ []((hook = "useRequireAuth" /\ ~userLoading /\ IsNull(hookUser))
             => "/auth/login" \in pushed)
    /\ []((userLoading \/ hook # "useRequireAuth") => "/auth/login" \notin pushed)
    /\ (hook = "useRequireAuth" /\ IsNull(session))
          ~> ("/auth/login" \in pushed \/ ~IsNull(session))

\* a visitor without a session was sent to the login page by getUser's answer
C13_Witness ==
    /\ hook = "useRequireAuth"
    /\ getUser = [state |-> "done", user |-> NULL]
    /\ IsNull(session) /\ events = <<>>
    /\ pushed = {"/auth/login"}

\* C15: when useAuth's signOut pushes '/', the backend's sign-out has completed
\* and no session is left.
C15_SignOutThenNavigate ==
    [][("/" \in pushed' /\ "/" \notin pushed) =>
          signOut' = "done" /\ IsNull(session')]_vars

\* C16: on workouts, activity_sync, user_baselines and user_challenges a SELECT
\* by U returns only rows whose user_id is U, and an INSERT, UPDATE or DELETE by
\* U succeeds only on a row whose user_id is U before and after the statement;
\* every row of profiles and user_points passes the SELECT policy for everyone.
C16_Succeeded(name) ==
    \/ ret'.status \in {"INSERT 0 1", "UPDATE 1", "DELETE 1"}
    \/ Table(name)' # Table(name)

C17_NoDirectInsert ==
    [][\A uid \in Actors \ {Anon} :
         \A id \in RLSIds("user_challenges"), row \in RLSRows("user_challenges") :
            (/\ ret'.fn = "INSERT"
             /\ row.user_id = uid
             /\ ClientInsertRow("user_challenges", uid, id, row))
               => user_challenges' = user_challenges]_vars

\* C18: over all interleavings of check_challenge_completion calls on a
\* challenge, award_points is invoked for it at most once and at most one call
\* returns TRUE.
C18_RewardOnce ==
    \A id \in ChallengeIds : paid[id].awards <= 1 /\ paid[id].trues <= 1

\* C19: after expire_old_challenges, every challenge that was active with
\* ends_at in the past and current_value below target_value has status 'failed'.
C19_ExpiredAreFailed ==
    [][\A s \in Sessions :
         ExpireOldChallenges(s)
           => \A k \in DOMAIN user_challenges :
                 (/\ user_challenges[k].status = "active"
                  /\ user_challenges[k].ends_at < now
                  /\ user_challenges[k].current_value < user_challenges[k].target_value)
                   => user_challenges'[k].status = "failed"]_vars

\* C20: award_points and spend_points called with p_amount <= 0 raise 'Points
\* amount must be positive' and leave every user_points row as it was.
C20_NonPositiveRejected ==
    [][\A s \in Sessions, u \in LedgerIds, n \in Amounts :
         n <= 0 =>
            /\ AwardPoints(s, u, n)
                 => /\ ret' = Ret("award_points", "Points amount must be positive",
                                  NULL, NULL, NULL)
                    /\ user_points' = user_points
                    /\ pc'[s] = "idle"
            /\ SpendPointsSelect(s, u, n)
                 => /\ ret' = Ret("spend_points", "Points amount must be positive",
                                  NULL, NULL, NULL)
                    /\ user_points' = user_points
                    /\ pc'[s] = "idle"]_vars

\* a call was turned down for its amount on a table that holds a row with points
\* and a history
C20_Witness ==
    /\ ret.status = "Points amount must be positive"
    /\ \E u \in DOMAIN user_points :
          /\ user_points[u].current_balance > 0
          /\ user_points[u].points_history # <<>>

\* C21: check_challenge_completion(c) returns TRUE exactly when its SELECT finds c
\* with status 'active' and current_value >= target_value; then status becomes
\* 'completed', completed_at is set, and award_points is called with
\* points_reward for the challenge's user iff points_reward > 0.  In every other
\* case it returns FALSE and changes neither user_challenges nor user_points.
C21_Ready(id) ==
    /\ HasRow(user_challenges, id)
    /\ user_challenges[id].status = "active"
    /\ user_challenges[id].current_value >= user_challenges[id].target_value

C21_CompletionContract ==
    [][\A s \in Sessions :
         /\ \A id \in ChallengeIds :
              (pc[s] = "idle" /\ CheckChallengeSelect(s, id)) =>
                 /\ user_challenges' = user_challenges
                 /\ user_points' = user_points
                 /\ paid' = paid
                 /\ IF C21_Ready(id)
                    THEN /\ pc'[s] = "check_update"
                         /\ call'[s].p_challenge_id = id
                         /\ call'[s].v_challenge = user_challenges[id]
                    ELSE /\ pc'[s] = "idle"
                         /\ ret' = Ret("check_challenge_completion", "ok", NULL, NULL,
                                       Some(FALSE))
         /\ (pc[s] = "check_update" /\ CheckChallengeUpdate(s)) =>
              LET id == call[s].p_challenge_id
                  v == call[s].v_challenge
              IN  /\ pc'[s] = "idle"
                  /\ ret' = Ret("check_challenge_completion", "ok", NULL, NULL,
                                Some(TRUE))
                  /\ paid'[id].trues = paid[id].trues + 1
                  /\ DOMAIN user_challenges' = DOMAIN user_challenges
                  /\ \A k \in DOMAIN user_challenges :
                        user_challenges'[k] =
                           IF k = id
                           THEN [user_challenges[k] EXCEPT !.status = "completed",
                                                           !.completed_at = Some(now)]
                           ELSE user_challenges[k]
                  /\ DOMAIN user_points' = DOMAIN user_points
                  /\ \A u \in DOMAIN user_points :
                        IF u = v.user_id /\ v.points_reward > 0
                        THEN /\ user_points'[u].current_balance =
                                   user_points[u].current_balance + v.points_reward
                             /\ user_points'[u].total_earned =
                                   user_points[u].total_earned + v.points_reward
                        ELSE user_points'[u] = user_points[u]
                  /\ paid'[id].awards =
                        paid[id].awards + (IF v.points_reward > 0 THEN 1 ELSE 0)]_vars

\* a call returned TRUE on a challenge with a reward and one on a challenge
\* without; a call on a completed challenge returned FALSE
C21_Witness ==
    /\ ret = Ret("check_challenge_completion", "ok", NULL, NULL, Some(FALSE))
    /\ \E j, k \in DOMAIN user_challenges :
          /\ user_challenges[j].status = "completed"
          /\ user_challenges[j].points_reward > 0 /\ paid[j].awards = 1
          /\ user_challenges[k].status = "completed"
          /\ user_challenges[k].points_reward = 0 /\ paid[k].trues = 1

\* C22: expire_old_challenges changes only the status of the challenges that are
\* active, past ends_at and below target, returns the number of rows it changed,
\* and leaves every other challenge and every user_points row unchanged.
C22_ExpireFrame ==
    [][\A s \in Sessions :
         (pc[s] = "idle" /\ ret'.fn = "expire_old_challenges"
            /\ ExpireOldChallenges(s)) =>
            LET due == {k \in DOMAIN user_challenges :
                          /\ user_challenges[k].status = "active"
                          /\ user_challenges[k].ends_at < now
                          /\ user_challenges[k].current_value
                               < user_challenges[k].target_value}
                changed == {k \in DOMAIN user_challenges :
                              user_challenges'[k] # user_challenges[k]}
            IN  /\ DOMAIN user_challenges' = DOMAIN user_challenges
                /\ changed = due
                /\ \A k \in changed :
                      \E st \in {"completed", "failed", "expired"} :
                          user_challenges'[k] = [user_challenges[k] EXCEPT !.status = st]
                /\ ret'.status = "ok"
                /\ ret'.v_expired_count = Cardinality(changed)
                /\ user_points' = user_points
                /\ paid' = paid]_vars

\* a call expired one challenge and left alone one that is active and past
\* ends_at with its target reached
C22_Witness ==
    /\ ret.fn = "expire_old_challenges" /\ ret.v_expired_count = 1
    /\ \E j, k \in DOMAIN user_challenges :
          /\ user_challenges[j].status = "expired"
          /\ user_challenges[k].status = "active"
          /\ user_challenges[k].ends_at < now
          /\ user_challenges[k].current_value >= user_challenges[k].target_value

\* C23: of two spend_points calls on a user that run concurrently on a balance
\* that covers one of them, the one whose UPDATE comes second returns success =
\* false with the balance it could not spend and leaves the row, the other
\* returns success = true; neither aborts with an error.
C23_OneSpendWins ==
    [][\A s \in Sessions :
         (pc[s] = "spend_update" /\ HasRow(user_points, call[s].user)
            /\ SpendPointsUpdate(s)) =>
            LET u == call[s].user
                n == call[s].amount
            IN  /\ ret'.status = "ok"
                /\ IF user_points[u].current_balance < n
                   THEN /\ ret'.success = Some(FALSE)
                        /\ ret'.new_balance = Some(user_points[u].current_balance)
                        /\ user_points' = user_points
                   ELSE /\ ret'.success = Some(TRUE)
                        /\ ret'.new_balance = Some(user_points[u].current_balance - n)]_vars

\* C24: every user_points row has current_balance = total_earned - total_spent.
C24_Conservation ==
    \A u \in DOMAIN user_points :
        user_points[u].current_balance
            = user_points[u].total_earned - user_points[u].total_spent

\* a row that has earned and spent and still holds points
C24_Witness ==
    \E u \in DOMAIN user_points :
        /\ user_points[u].total_earned > 0
        /\ user_points[u].total_spent > 0
        /\ user_points[u].current_balance > 0

\* C25: in every user_points row the 'amount' fields of the history sum to
\* current_balance, those of the 'earned' entries to total_earned, and the
\* absolute amounts of the 'spent' entries to total_spent.
RECURSIVE C25_Sum(_, _)
C25_Sum(h, types) ==
    IF h = <<>> THEN 0
    ELSE (IF Head(h).type \in types THEN Head(h).amount ELSE 0) + C25_Sum(Tail(h), types)

C25_AuditTrail ==
    \A u \in DOMAIN user_points :
        LET h == user_points[u].points_history
        IN  /\ C25_Sum(h, {"earned", "spent"}) = user_points[u].current_balance
            /\ C25_Sum(h, {"earned"}) = user_points[u].total_earned
            /\ -C25_Sum(h, {"spent"}) = user_points[u].total_spent

\* a history with an 'earned' entry followed by a 'spent' entry and another entry
C25_Witness ==
    \E u \in DOMAIN user_points :
        LET h == user_points[u].points_history
        IN  /\ Len(h) = 3
            /\ h[1].type = "earned" /\ h[2].type = "spent"

\* C26: spend_points returns success = true only if a user_points row for
\* p_user_id existed and the call took exactly p_amount off its current_balance.
C26_SuccessMeansSpent ==
    [][\A s \in Sessions :
         (pc[s] = "spend_update" /\ SpendPointsUpdate(s)
            /\ ret'.success = Some(TRUE)) =>
            LET u == call[s].user
            IN  /\ HasRow(user_points, u)
                /\ HasRow(user_points', u)
                /\ user_points'[u].current_balance
                      = user_points[u].current_balance - call[s].amount]_vars

\* C27: once the getUser() result and every auth state change have been given
\* to useUser, the user it exposes is the user of the auth client's session; and
\* loading, once false, stays false.
C27_Converges ==
    /\ []((hook # "none" /\ getUser.state = "done" /\ events = <<>>)
            => hookUser = session)
    /\ [][~userLoading => ~userLoading']_vars

\* C28: the profile useProfile exposes is the current user's: a non-null profile
\* has the id of the hook's user (and is null when the user is null), and a
\* non-null profile comes with a null error.
C28_OwnProfileOnly ==
    hook = "useProfile" =>
        /\ ~IsNull(profile) => (~IsNull(hookUser) /\ Val(profile) = Val(hookUser))
        /\ ~IsNull(profile) => IsNull(profileError)

\* C29: of two signUp calls with one username and different emails that both
\* passed the availability check, at most one creates an account, and the call
\* whose auth.signUp finds the username taken returns the error 'Username
\* already taken' with field 'username'.
C29_RaceLoserReported ==
    /\ [](\A n \in Usernames :
            Cardinality({k \in DOMAIN profiles : profiles[k].username = n}) <= 1)
    /\ [][\A c \in Clients, id \in {IdA1, IdB1} :
            (/\ wpc[c] = "signUp_auth"
             /\ HoldsUsername(profiles, wargs[c].username)
             /\ SignUpAuthReply(c, id))
               => /\ auth_users' = auth_users
                  /\ wres'[c] = Result("signUp", NULL,
                                       ErrorValue(UsernameTakenMessage,
                                                  Some("username")))]_vars

====
